---- MODULE Spec2Model ----
(***************************************************************************)
(* InCaseYouForget: the scratch-off Reveal Engine (ScratchCard), the       *)
(* Action Ledger, the Audio Controller and the View Controller of the      *)
(* Home page, as state machines.  Every handler of the source is one       *)
(* atomic action: React re-renders between two events, so a handler reads  *)
(* the state committed by the previous one.                                *)
(*                                                                         *)
(* Four specifications share the module; each keeps the variables of the   *)
(* components it leaves out at their idle values:                          *)
(*   SpecCard    the ScratchCard instance (src/unnamed/part_000)           *)
(*   SpecLedger  load / markRead / updateStatus and the derived sets       *)
(*   SpecAudio   toggleAudio / stopAudio and the asynchronous results      *)
(*   SpecHome    the page: startup fetch, openRandomLetter, the buttons,   *)
(*               with its ledger and its audio slot                        *)
(*   SpecPage    the page of src/src/app/page.tsx, whose header button     *)
(*               toggles the archive without closing the letter            *)
(***************************************************************************)
EXTENDS Integers, Sequences, FiniteSets, TLC

(***************************************************************************)
(* Bounds of the model (not program constants).                            *)
(***************************************************************************)
\* brush diameter in canvas pixels (the brushSize prop, scaled to the model's canvases)
BrushSize == 1
\* the canvas element before the first initializeCanvas: the HTML default
\* bitmap (300x150, fully transparent), scaled to the model
DefaultCanvasW == 2
DefaultCanvasH == 1
\* the erase counter is followed up to this value
MaxScratchCount == 7
\* the reveal callback is counted up to this many invocations
MaxCalls == 2
\* Date.now() is followed up to this value
MaxTime == 2
\* Audio elements created by toggleAudio are followed up to this many
MaxPlayers == 3
\* Audio elements followed when the whole page is modelled
MaxHomePlayers == 1

(***************************************************************************)
(* Program constants.                                                      *)
(***************************************************************************)
\* revealThreshold = 0.4 as the fraction ThresholdNum / ThresholdDen
ThresholdNum == 2
ThresholdDen == 5
\* scratchCountRef.current % 7
MaskEvery == 7

VARIABLES
    \* ---- ScratchCard (Reveal Engine) ----
    scratchMode,      \* prop: "scratch" | "hover" | "click"
    cardMounted,      \* the instance is between mount and unmount
    canvasSize,       \* useState canvasSize, <<width, height>> in half pixels
    canvas,           \* the canvas element: [width, height, cleared]
    scratchCount,     \* scratchCountRef.current
    revealTriggered,  \* revealTriggeredRef.current (the latch)
    maskImageUrl,     \* useState maskImageUrl: <<>> is "", else the snapshot
    isInitialized,
    isHovering,
    isRevealed,
    isScratching,
    lastPosition,     \* <<>> is null, else <<x, y>>
    frame,            \* the pending requestAnimationFrame: <<>> or <<size>>
    \* observations of the ScratchCard
    revealCalls,      \* invocations of onRevealComplete since mount
    callsSinceInit,   \* invocations since the last initializeCanvas (or mount)
    checkRan,         \* the last step computed the reveal ratio
    lastErase,        \* what the last step erased: "none" | "disc" | "segment"
    lastEvent,        \* the handler, effect or callback that ran last
    \* ---- Home: Action Ledger ----
    letters,          \* useState letters: the loaded Letter records
    actions,          \* useState actions: the in-memory ledger, key -> LetterState
    storage,          \* localStorage[STORAGE_KEY]: the stored text
    ledgerLoaded,     \* the startup load effect has run
    now,              \* Date.now()
    uncaught,         \* an exception has escaped a ledger operation
    writeFailed,      \* observation: some localStorage.setItem of this session threw
    lastOp,           \* observation: the last ledger operation and what it did
    \* ---- Home: Audio Controller ----
    homeMounted,      \* the Home component is mounted
    audioRef,         \* audioRef.current: 0 is null, else the index of a player
    activeAudioId,    \* useState activeAudioId: "" is null
    players,          \* every Audio element created: [letter, st, promise]
    \* observations of the Audio Controller
    slotReleased,     \* stopAudio has run and toggleAudio has started no clip since
    lastAudio,        \* the controller call or media callback that ran last
    \* ---- Home: View Controller ----
    loading,          \* useState loading
    error,            \* useState error: "" is null
    currentId,        \* useState currentId: "" is null
    showArchive,      \* useState showArchive
    isUnfurling,      \* useState isUnfurling
    unfurlTimer,      \* unfurlTimerRef.current and its timeout
    timeouts,         \* how many timeouts of openRandomLetter are scheduled
    response,         \* what the fetch of loadLetters settled with
    ignore,           \* the ignore flag of the loadLetters effect
    lastCall          \* observation: the view handler or callback that ran last

cardVars == <<scratchMode, cardMounted, canvasSize, canvas, scratchCount,
              revealTriggered, maskImageUrl, isInitialized, isHovering,
              isRevealed, isScratching, lastPosition, frame,
              revealCalls, callsSinceInit, checkRan, lastErase, lastEvent>>

ledgerVars == <<letters, actions, storage, ledgerLoaded, now, uncaught,
                writeFailed, lastOp>>

audioVars == <<homeMounted, audioRef, activeAudioId, players, slotReleased,
               lastAudio>>

viewVars == <<loading, error, currentId, showArchive, isUnfurling,
              unfurlTimer, timeouts, response, ignore, lastCall>>

vars == <<cardVars, ledgerVars, audioVars, viewVars>>

\* a step of another component: the view keeps its state
NoViewCall ==
    /\ UNCHANGED <<loading, error, currentId, showArchive, isUnfurling,
                   unfurlTimer, timeouts, response, ignore>>
    /\ lastCall' = "none"

(***************************************************************************)
(* ScratchCard: geometry of the occlusion surface.                         *)
(* A pixel is <<x, y>>; pointer points are pixel centres in canvas space.  *)
(* A pixel's alpha becomes exactly 0 when its centre lies within           *)
(* brushSize / 2 of the erased disc's centre or of the erased segment      *)
(* (anti-aliased edge pixels keep a non-zero alpha).                       *)
(***************************************************************************)
NoPoint == <<>>
ScratchModes == {"scratch", "hover", "click"}

\* container sizes getBoundingClientRect can report, in half pixels:
\* 0x0 (canvas 1x1), 1.5x2 (rounds to 2x2) and 5x1
ContainerSizes == {<<0, 0>>, <<3, 4>>, <<10, 2>>}

\* Math.round of h half-pixels (halves round up)
Round(h) == (h + 1) \div 2

Max(a, b) == IF a >= b THEN a ELSE b

Pixels(w, h) == (0 .. w - 1) \X (0 .. h - 1)

Sq(n) == n * n

Dist2(a, b) == Sq(a[1] - b[1]) + Sq(a[2] - b[2])

\* ctx.arc(x, y, brushSize / 2, 0, 2 * Math.PI); ctx.fill()
Disc(p, w, h) == {c \in Pixels(w, h) : 4 * Dist2(c, p) <= Sq(BrushSize)}

\* ctx.moveTo(last); ctx.lineTo(x, y); ctx.stroke() with lineWidth brushSize
\* and round caps: the pixels within brushSize / 2 of the segment
Segment(a, b, w, h) ==
    LET dx == b[1] - a[1]
        dy == b[2] - a[2]
        len2 == Sq(dx) + Sq(dy)
    IN {c \in Pixels(w, h) :
          LET dot == (c[1] - a[1]) * dx + (c[2] - a[2]) * dy
              cross == (c[1] - a[1]) * dy - (c[2] - a[2]) * dx
          IN IF len2 = 0 \/ dot <= 0 THEN 4 * Dist2(c, a) <= Sq(BrushSize)
             ELSE IF dot >= len2 THEN 4 * Dist2(c, b) <= Sq(BrushSize)
             ELSE 4 * Sq(cross) <= Sq(BrushSize) * len2}

\* canvas.toDataURL(): the snapshot encodes the whole bitmap
DataURL(cv) == <<cv.width, cv.height, cv.cleared>>

\* updateMaskData: the new maskImageUrl and isInitialized; ok is whether
\* toDataURL succeeded
updateMaskData(cv, ok, wasInitialized) ==
    IF ok THEN [mask |-> DataURL(cv), initialized |-> TRUE]
    ELSE [mask |-> <<>>, initialized |-> wasInitialized]

\* mutant of RatioReached: the comparison is strict
RatioReachedStrict(clearedPixels, totalPixels) ==
    IF totalPixels = 0 THEN 0 > ThresholdNum
    ELSE clearedPixels * ThresholdDen > ThresholdNum * totalPixels

\* revealRatio >= revealThreshold, in exact arithmetic
\* (revealRatio = totalPixels === 0 ? 0 : clearedPixels / totalPixels)
RatioReached(clearedPixels, totalPixels) ==
    IF totalPixels = 0 THEN 0 >= ThresholdNum
    ELSE clearedPixels * ThresholdDen >= ThresholdNum * totalPixels

\* mutant of maybeCompleteReveal: the latch is not consulted
maybeCompleteRevealNoLatch(cv, latch) ==
    [ran |-> TRUE,
     fire |-> RatioReached(Cardinality(cv.cleared), cv.width * cv.height)]

\* maybeCompleteReveal on canvas cv with the latch at `latch`:
\* whether the ratio was computed, and whether the callback is invoked
maybeCompleteReveal(cv, latch) ==
    IF latch THEN [ran |-> FALSE, fire |-> FALSE]
    ELSE [ran |-> TRUE,
          fire |-> RatioReached(Cardinality(cv.cleared), cv.width * cv.height)]

\* mutant of clickReveal: every flip to revealed invokes the callback
clickRevealNoLatch(current, latch) ==
    [next |-> ~current, fire |-> ~current]

\* the setIsRevealed updater of click mode: the next flag, and whether the
\* callback is invoked
clickReveal(current, latch) ==
    [next |-> ~current, fire |-> ~current /\ ~latch]

\* scratchCountRef.current % 7 === 0
IsMaskStep(count) == count % MaskEvery = 0

(***************************************************************************)
(* ScratchCard: initial state (after mount and its effects: canvasSize is  *)
(* the container's size and the first initialization frame is pending).    *)
(***************************************************************************)
CardInit ==
    /\ scratchMode \in ScratchModes
    /\ cardMounted = TRUE
    /\ canvasSize \in ContainerSizes
    /\ canvas = [width |-> DefaultCanvasW, height |-> DefaultCanvasH,
                 cleared |-> Pixels(DefaultCanvasW, DefaultCanvasH)]
    /\ scratchCount = 0
    /\ revealTriggered = FALSE
    /\ maskImageUrl = <<>>
    /\ isInitialized = FALSE
    /\ isHovering = FALSE
    /\ isRevealed = FALSE
    /\ isScratching = FALSE
    /\ lastPosition = NoPoint
    /\ frame = <<canvasSize>>
    /\ revealCalls = 0
    /\ callsSinceInit = 0
    /\ checkRan = FALSE
    /\ lastErase = "none"
    /\ lastEvent = "mount"

\* the card with no instance mounted (the other specifications)
CardIdle ==
    /\ scratchMode = "scratch"
    /\ cardMounted = FALSE
    /\ canvasSize = <<0, 0>>
    /\ canvas = [width |-> DefaultCanvasW, height |-> DefaultCanvasH,
                 cleared |-> Pixels(DefaultCanvasW, DefaultCanvasH)]
    /\ scratchCount = 0
    /\ revealTriggered = FALSE
    /\ maskImageUrl = <<>>
    /\ isInitialized = FALSE
    /\ isHovering = FALSE
    /\ isRevealed = FALSE
    /\ isScratching = FALSE
    /\ lastPosition = NoPoint
    /\ frame = <<>>
    /\ revealCalls = 0
    /\ callsSinceInit = 0
    /\ checkRan = FALSE
    /\ lastErase = "none"
    /\ lastEvent = "none"

\* the observations when the callback is (fire) or is not invoked
Notify(fire) ==
    /\ revealCalls' = IF fire THEN revealCalls + 1 ELSE revealCalls
    /\ callsSinceInit' = IF fire THEN callsSinceInit + 1 ELSE callsSinceInit

CanNotify == revealCalls < MaxCalls

(***************************************************************************)
(* ScratchCard: the actions.                                               *)
(***************************************************************************)
\* mutant of InitializeCanvas: the latch is not cleared
InitializeCanvasKeepsLatch ==
    /\ UNCHANGED <<ledgerVars, audioVars, viewVars>>
    /\ cardMounted /\ frame # <<>>
    /\ lastEvent' = "initializeCanvas"
    /\ \E ok \in BOOLEAN :
         LET size == frame[1]
             cv == [width |-> Max(1, Round(size[1])),
                    height |-> Max(1, Round(size[2])),
                    cleared |-> {}]
             m == updateMaskData(cv, ok, isInitialized)
         IN /\ canvas' = cv
            /\ maskImageUrl' = m.mask
            /\ isInitialized' = m.initialized
    /\ isRevealed' = FALSE
    /\ isHovering' = FALSE
    /\ isScratching' = FALSE
    /\ lastPosition' = NoPoint
    /\ scratchCount' = 0
    /\ frame' = <<>>
    /\ callsSinceInit' = 0
    /\ checkRan' = FALSE
    /\ lastErase' = "none"
    /\ UNCHANGED <<scratchMode, cardMounted, canvasSize, revealCalls,
                   revealTriggered>>

\* the animation frame fires: initializeCanvas with the size of its closure
InitializeCanvas ==
    /\ UNCHANGED <<ledgerVars, audioVars, viewVars>>
    /\ cardMounted /\ frame # <<>>
    /\ lastEvent' = "initializeCanvas"
    /\ \E ok \in BOOLEAN :
         LET size == frame[1]
             cv == [width |-> Max(1, Round(size[1])),
                    height |-> Max(1, Round(size[2])),
                    cleared |-> {}]
             m == updateMaskData(cv, ok, isInitialized)
         IN /\ canvas' = cv
            /\ maskImageUrl' = m.mask
            /\ isInitialized' = m.initialized
    /\ isRevealed' = FALSE
    /\ isHovering' = FALSE
    /\ isScratching' = FALSE
    /\ lastPosition' = NoPoint
    /\ scratchCount' = 0
    /\ revealTriggered' = FALSE
    /\ frame' = <<>>
    /\ callsSinceInit' = 0
    /\ checkRan' = FALSE
    /\ lastErase' = "none"
    /\ UNCHANGED <<scratchMode, cardMounted, canvasSize, revealCalls>>

\* window resize: updateSize sets canvasSize; when a dimension changed,
\* initializeCanvas is a new callback and the effect reschedules the frame
Resize(size) ==
    /\ UNCHANGED <<ledgerVars, audioVars, viewVars>>
    /\ cardMounted
    /\ lastEvent' = "resize"
    /\ canvasSize' = size
    /\ frame' = IF size # canvasSize THEN <<size>> ELSE frame
    /\ checkRan' = FALSE
    /\ lastErase' = "none"
    /\ UNCHANGED <<scratchMode, cardMounted, canvas, scratchCount,
                   revealTriggered, maskImageUrl, isInitialized, isHovering,
                   isRevealed, isScratching, lastPosition, revealCalls,
                   callsSinceInit>>

\* the resetSignal prop changes: the effect cancels the pending frame and
\* requests a new one
ResetSignal ==
    /\ UNCHANGED <<ledgerVars, audioVars, viewVars>>
    /\ cardMounted
    /\ lastEvent' = "resetSignal"
    /\ frame' = <<canvasSize>>
    /\ checkRan' = FALSE
    /\ lastErase' = "none"
    /\ UNCHANGED <<scratchMode, cardMounted, canvasSize, canvas, scratchCount,
                   revealTriggered, maskImageUrl, isInitialized, isHovering,
                   isRevealed, isScratching, lastPosition, revealCalls,
                   callsSinceInit>>

\* scratch(x, y) at point p, as the conjunct of a pointer handler
scratch(p) ==
    LET erased == IF lastPosition # NoPoint
                  THEN Segment(lastPosition, p, canvas.width, canvas.height)
                  ELSE Disc(p, canvas.width, canvas.height)
        cv == [canvas EXCEPT !.cleared = @ \cup erased]
        count == scratchCount + 1
        r == IF IsMaskStep(count) THEN maybeCompleteReveal(cv, revealTriggered)
             ELSE [ran |-> FALSE, fire |-> FALSE]
    IN /\ scratchCount < MaxScratchCount
       /\ r.fire => CanNotify
       /\ canvas' = cv
       /\ lastPosition' = p
       /\ lastErase' = IF lastPosition # NoPoint THEN "segment" ELSE "disc"
       /\ scratchCount' = count
       /\ IF IsMaskStep(count)
          THEN \E ok \in BOOLEAN :
                 LET m == updateMaskData(cv, ok, isInitialized)
                 IN /\ maskImageUrl' = m.mask
                    /\ isInitialized' = m.initialized
          ELSE UNCHANGED <<maskImageUrl, isInitialized>>
       /\ checkRan' = r.ran
       /\ revealTriggered' = (revealTriggered \/ r.fire)
       /\ Notify(r.fire)

onPointerDown(p) ==
    /\ UNCHANGED <<ledgerVars, audioVars, viewVars>>
    /\ cardMounted
    /\ lastEvent' = "pointerdown"
    /\ p \in Pixels(canvas.width, canvas.height)
    /\ \/ /\ scratchMode = "click"
          /\ LET r == clickReveal(isRevealed, revealTriggered)
             IN /\ r.fire => CanNotify
                /\ isRevealed' = r.next
                /\ revealTriggered' = (revealTriggered \/ r.fire)
                /\ Notify(r.fire)
          /\ checkRan' = FALSE
          /\ lastErase' = "none"
          /\ UNCHANGED <<canvas, scratchCount, maskImageUrl, isInitialized,
                         isScratching, lastPosition>>
       \/ /\ scratchMode = "hover"
          /\ checkRan' = FALSE
          /\ lastErase' = "none"
          /\ UNCHANGED <<canvas, scratchCount, revealTriggered, maskImageUrl,
                         isInitialized, isRevealed, isScratching, lastPosition,
                         revealCalls, callsSinceInit>>
       \/ /\ scratchMode = "scratch"
          /\ isScratching' = TRUE
          /\ scratch(p)
          /\ UNCHANGED isRevealed
    /\ UNCHANGED <<scratchMode, cardMounted, canvasSize, isHovering, frame>>

\* mutant of onPointerMove: a move erases whether or not a stroke is active
onPointerMoveAlways(p) ==
    /\ UNCHANGED <<ledgerVars, audioVars, viewVars>>
    /\ cardMounted
    /\ lastEvent' = "pointermove"
    /\ p \in Pixels(canvas.width, canvas.height)
    /\ \/ /\ scratchMode # "scratch"
          /\ checkRan' = FALSE
          /\ lastErase' = "none"
          /\ UNCHANGED <<canvas, scratchCount, revealTriggered, maskImageUrl,
                         isInitialized, isRevealed, isScratching, lastPosition,
                         revealCalls, callsSinceInit>>
       \/ /\ scratchMode = "scratch"
          /\ scratch(p)
          /\ UNCHANGED <<isRevealed, isScratching>>
    /\ UNCHANGED <<scratchMode, cardMounted, canvasSize, isHovering, frame>>

\* onPointerMove
onPointerMove(p) ==
    /\ UNCHANGED <<ledgerVars, audioVars, viewVars>>
    /\ cardMounted
    /\ lastEvent' = "pointermove"
    /\ p \in Pixels(canvas.width, canvas.height)
    /\ \/ /\ ~isScratching \/ scratchMode # "scratch"
          /\ checkRan' = FALSE
          /\ lastErase' = "none"
          /\ UNCHANGED <<canvas, scratchCount, revealTriggered, maskImageUrl,
                         isInitialized, isRevealed, isScratching, lastPosition,
                         revealCalls, callsSinceInit>>
       \/ /\ isScratching /\ scratchMode = "scratch"
          /\ scratch(p)
          /\ UNCHANGED <<isRevealed, isScratching>>
    /\ UNCHANGED <<scratchMode, cardMounted, canvasSize, isHovering, frame>>

\* mutant of onPointerEnd: the reveal-ratio check is throttled by the erase
\* counter, as it is in scratch
onPointerEndThrottled ==
    /\ UNCHANGED <<ledgerVars, audioVars, viewVars>>
    /\ cardMounted
    /\ lastEvent' = "pointerend"
    /\ \/ /\ scratchMode # "scratch"
          /\ checkRan' = FALSE
          /\ UNCHANGED <<revealTriggered, maskImageUrl, isInitialized,
                         isScratching, lastPosition, revealCalls,
                         callsSinceInit>>
       \/ /\ scratchMode = "scratch"
          /\ LET r == IF IsMaskStep(scratchCount)
                      THEN maybeCompleteReveal(canvas, revealTriggered)
                      ELSE [ran |-> FALSE, fire |-> FALSE]
             IN /\ r.fire => CanNotify
                /\ checkRan' = r.ran
                /\ revealTriggered' = (revealTriggered \/ r.fire)
                /\ Notify(r.fire)
          /\ \E ok \in BOOLEAN :
               LET m == updateMaskData(canvas, ok, isInitialized)
               IN /\ maskImageUrl' = m.mask
                  /\ isInitialized' = m.initialized
          /\ isScratching' = FALSE
          /\ lastPosition' = NoPoint
    /\ lastErase' = "none"
    /\ UNCHANGED <<scratchMode, cardMounted, canvasSize, canvas, scratchCount,
                   isHovering, isRevealed, frame>>

\* mutant of onPointerEnd: the end of a stroke resets the erase counter
onPointerEndResetsCount ==
    /\ UNCHANGED <<ledgerVars, audioVars, viewVars>>
    /\ cardMounted
    /\ lastEvent' = "pointerend"
    /\ \/ /\ scratchMode # "scratch"
          /\ checkRan' = FALSE
          /\ UNCHANGED <<revealTriggered, maskImageUrl, isInitialized,
                         isScratching, lastPosition, revealCalls,
                         callsSinceInit, scratchCount>>
       \/ /\ scratchMode = "scratch"
          /\ LET r == maybeCompleteReveal(canvas, revealTriggered)
             IN /\ r.fire => CanNotify
                /\ checkRan' = r.ran
                /\ revealTriggered' = (revealTriggered \/ r.fire)
                /\ Notify(r.fire)
          /\ \E ok \in BOOLEAN :
               LET m == updateMaskData(canvas, ok, isInitialized)
               IN /\ maskImageUrl' = m.mask
                  /\ isInitialized' = m.initialized
          /\ isScratching' = FALSE
          /\ lastPosition' = NoPoint
          /\ scratchCount' = 0
    /\ lastErase' = "none"
    /\ UNCHANGED <<scratchMode, cardMounted, canvasSize, canvas, isHovering,
                   isRevealed, frame>>

\* mutant of onPointerEnd: the last point is kept
onPointerEndKeepsLastPoint ==
    /\ UNCHANGED <<ledgerVars, audioVars, viewVars>>
    /\ cardMounted
    /\ lastEvent' = "pointerend"
    /\ \/ /\ scratchMode # "scratch"
          /\ checkRan' = FALSE
          /\ UNCHANGED <<revealTriggered, maskImageUrl, isInitialized,
                         isScratching, lastPosition, revealCalls,
                         callsSinceInit>>
       \/ /\ scratchMode = "scratch"
          /\ LET r == maybeCompleteReveal(canvas, revealTriggered)
             IN /\ r.fire => CanNotify
                /\ checkRan' = r.ran
                /\ revealTriggered' = (revealTriggered \/ r.fire)
                /\ Notify(r.fire)
          /\ \E ok \in BOOLEAN :
               LET m == updateMaskData(canvas, ok, isInitialized)
               IN /\ maskImageUrl' = m.mask
                  /\ isInitialized' = m.initialized
          /\ isScratching' = FALSE
          /\ UNCHANGED lastPosition
    /\ lastErase' = "none"
    /\ UNCHANGED <<scratchMode, cardMounted, canvasSize, canvas, scratchCount,
                   isHovering, isRevealed, frame>>

\* mutant of onPointerEnd: a snapshot that cannot be produced ends the
\* handler before the reveal-ratio check
onPointerEndAbortsOnFailure ==
    /\ UNCHANGED <<ledgerVars, audioVars, viewVars>>
    /\ cardMounted
    /\ lastEvent' = "pointerend"
    /\ \/ /\ scratchMode # "scratch"
          /\ checkRan' = FALSE
          /\ UNCHANGED <<revealTriggered, maskImageUrl, isInitialized,
                         isScratching, lastPosition, revealCalls,
                         callsSinceInit>>
       \/ /\ scratchMode = "scratch"
          /\ \E ok \in BOOLEAN :
               LET m == updateMaskData(canvas, ok, isInitialized)
                   r == IF ok THEN maybeCompleteReveal(canvas, revealTriggered)
                        ELSE [ran |-> FALSE, fire |-> FALSE]
               IN /\ maskImageUrl' = m.mask
                  /\ isInitialized' = m.initialized
                  /\ r.fire => CanNotify
                  /\ checkRan' = r.ran
                  /\ revealTriggered' = (revealTriggered \/ r.fire)
                  /\ Notify(r.fire)
          /\ isScratching' = FALSE
          /\ lastPosition' = NoPoint
    /\ lastErase' = "none"
    /\ UNCHANGED <<scratchMode, cardMounted, canvasSize, canvas, scratchCount,
                   isHovering, isRevealed, frame>>

\* onPointerUp / onPointerCancel
onPointerEnd ==
    /\ UNCHANGED <<ledgerVars, audioVars, viewVars>>
    /\ cardMounted
    /\ lastEvent' = "pointerend"
    /\ \/ /\ scratchMode # "scratch"
          /\ checkRan' = FALSE
          /\ UNCHANGED <<revealTriggered, maskImageUrl, isInitialized,
                         isScratching, lastPosition, revealCalls,
                         callsSinceInit>>
       \/ /\ scratchMode = "scratch"
          /\ LET r == maybeCompleteReveal(canvas, revealTriggered)
             IN /\ r.fire => CanNotify
                /\ checkRan' = r.ran
                /\ revealTriggered' = (revealTriggered \/ r.fire)
                /\ Notify(r.fire)
          /\ \E ok \in BOOLEAN :
               LET m == updateMaskData(canvas, ok, isInitialized)
               IN /\ maskImageUrl' = m.mask
                  /\ isInitialized' = m.initialized
          /\ isScratching' = FALSE
          /\ lastPosition' = NoPoint
    /\ lastErase' = "none"
    /\ UNCHANGED <<scratchMode, cardMounted, canvasSize, canvas, scratchCount,
                   isHovering, isRevealed, frame>>

onMouseEnter ==
    /\ UNCHANGED <<ledgerVars, audioVars, viewVars>>
    /\ cardMounted
    /\ lastEvent' = "mouseenter"
    /\ scratchMode = "hover"
    /\ isHovering' = TRUE
    /\ checkRan' = FALSE
    /\ lastErase' = "none"
    /\ UNCHANGED <<scratchMode, cardMounted, canvasSize, canvas, scratchCount,
                   revealTriggered, maskImageUrl, isInitialized, isRevealed,
                   isScratching, lastPosition, frame, revealCalls,
                   callsSinceInit>>

onMouseLeave ==
    /\ UNCHANGED <<ledgerVars, audioVars, viewVars>>
    /\ cardMounted
    /\ lastEvent' = "mouseleave"
    /\ scratchMode = "hover"
    /\ isHovering' = FALSE
    /\ checkRan' = FALSE
    /\ lastErase' = "none"
    /\ UNCHANGED <<scratchMode, cardMounted, canvasSize, canvas, scratchCount,
                   revealTriggered, maskImageUrl, isInitialized, isRevealed,
                   isScratching, lastPosition, frame, revealCalls,
                   callsSinceInit>>

\* unmount: the effect cleanups cancel the frame and remove the listener
CardUnmount ==
    /\ UNCHANGED <<ledgerVars, audioVars, viewVars>>
    /\ cardMounted
    /\ lastEvent' = "unmount"
    /\ cardMounted' = FALSE
    /\ frame' = <<>>
    /\ checkRan' = FALSE
    /\ lastErase' = "none"
    /\ UNCHANGED <<scratchMode, canvasSize, canvas, scratchCount,
                   revealTriggered, maskImageUrl, isInitialized, isHovering,
                   isRevealed, isScratching, lastPosition, revealCalls,
                   callsSinceInit>>

AllPoints == Pixels(5, 2)

CardNext ==
    \/ InitializeCanvas
    \/ \E size \in ContainerSizes : Resize(size)
    \/ ResetSignal
    \/ \E p \in AllPoints : onPointerDown(p)
    \/ \E p \in AllPoints : onPointerMove(p)
    \/ onPointerEnd
    \/ onMouseEnter
    \/ onMouseLeave
    \/ CardUnmount


(***************************************************************************)
(* Action Ledger: values.                                                  *)
(* The stored text is [kind |-> "missing"] (no entry), "empty" (the empty  *)
(* string), "garbage" (not JSON) or "json" with the value it parses to.    *)
(* A JSON value is a record with a tag t; a LetterState is                 *)
(* [status, seenAt, updatedAt].                                            *)
(***************************************************************************)
LetterStatus == {"read", "hearted", "archived"}

LetterIds == {"a", "b"}

EmptyLedger == [k \in {} |-> 0]

LetterStateOf(status, seenAt, updatedAt) ==
    [status |-> status, seenAt |-> seenAt, updatedAt |-> updatedAt]

IsJsonValue(v) == "t" \in DOMAIN v

\* JavaScript truthiness of a ledger value
Truthy(v) ==
    IF ~IsJsonValue(v) THEN TRUE
    ELSE CASE v.t = "number" -> v.n # 0
           [] v.t = "string" -> v.s # ""
           [] v.t = "bool" -> v.b
           [] v.t = "null" -> FALSE
           [] OTHER -> TRUE

\* typeof v === "object"
TypeofObject(v) == v.t \in {"null", "array", "object"}

\* JSON.stringify(next): the text of an object with one member per key
Stringify(ledger) ==
    [kind |-> "json",
     val |-> [t |-> "object",
              entries |-> {<<k, ledger[k]>> : k \in DOMAIN ledger}]]

\* the value JSON.parse returns, seen as a key -> value mapping: the members
\* of an object, the indices of an array
AsRecord(v) ==
    IF v.t = "object"
    THEN [k \in {e[1] : e \in v.entries} |->
            (CHOOSE e \in v.entries : e[1] = k)[2]]
    ELSE [k \in {ToString(i - 1) : i \in 1 .. Len(v.elems)} |->
            v.elems[CHOOSE i \in 1 .. Len(v.elems) : ToString(i - 1) = k]]

\* actions[id] is truthy
HasEntry(ledger, id) == id \in DOMAIN ledger /\ Truthy(ledger[id])

\* mutant of LoadLedger: a parse error is not caught
LoadLedgerNoCatch(previous, stored, readThrows) ==
    IF readThrows THEN [actions |-> previous, threw |-> FALSE]
    ELSE IF stored.kind \in {"missing", "empty"}
    THEN [actions |-> previous, threw |-> FALSE]
    ELSE IF stored.kind = "garbage"
    THEN [actions |-> previous, threw |-> TRUE]
    ELSE IF Truthy(stored.val) /\ TypeofObject(stored.val)
    THEN [actions |-> AsRecord(stored.val), threw |-> FALSE]
    ELSE [actions |-> previous, threw |-> FALSE]

\* mutant of LoadLedger: the parsed ledger is not installed
LoadLedgerIgnoresStored(previous, stored, readThrows) ==
    [actions |-> previous, threw |-> FALSE]

\* the ledger load effect: the new ledger, and whether an exception escapes.
\* readThrows: localStorage.getItem throws
LoadLedger(previous, stored, readThrows) ==
    IF readThrows THEN [actions |-> previous, threw |-> FALSE]
    ELSE IF stored.kind \in {"missing", "empty"}
    THEN [actions |-> previous, threw |-> FALSE]
    ELSE IF stored.kind = "garbage"
    THEN [actions |-> previous, threw |-> FALSE]
    ELSE IF Truthy(stored.val) /\ TypeofObject(stored.val)
    THEN [actions |-> AsRecord(stored.val), threw |-> FALSE]
    ELSE [actions |-> previous, threw |-> FALSE]

\* mutant of WithEntry: the entries of previous are not copied
WithEntryAlone(previous, letterId, entry) ==
    [k \in {letterId} |-> entry]

\* { ...previous, [letterId]: entry }
WithEntry(previous, letterId, entry) ==
    [k \in DOMAIN previous \cup {letterId} |->
        IF k = letterId THEN entry ELSE previous[k]]

\* mutant of markReadUpdater: an existing entry is overwritten
markReadUpdaterAlways(previous, letterId, t) ==
    [next |-> WithEntry(previous, letterId, LetterStateOf("read", t, t)),
     same |-> FALSE]

\* the updater markRead passes: next, and whether next === previous
markReadUpdater(previous, letterId, t) ==
    IF HasEntry(previous, letterId) THEN [next |-> previous, same |-> TRUE]
    ELSE [next |-> WithEntry(previous, letterId, LetterStateOf("read", t, t)),
          same |-> FALSE]

\* mutant of updateStatusUpdater: seenAt is not carried forward
updateStatusUpdaterResetsSeenAt(previous, letterId, status, t) ==
    IF letterId \in DOMAIN previous /\ previous[letterId].status = status
    THEN [next |-> previous, same |-> TRUE]
    ELSE [next |-> WithEntry(previous, letterId, LetterStateOf(status, t, t)),
          same |-> FALSE]

\* mutant of updateStatusUpdater: the first status written for a letter
\* is kept
updateStatusUpdaterFirstWins(previous, letterId, status, t) ==
    IF letterId \in DOMAIN previous
    THEN [next |-> previous, same |-> TRUE]
    ELSE [next |-> WithEntry(previous, letterId, LetterStateOf(status, t, t)),
          same |-> FALSE]

\* mutant of updateStatusUpdater: writing the status a letter already has
\* removes its entry
updateStatusUpdaterUnsets(previous, letterId, status, t) ==
    IF letterId \in DOMAIN previous /\ previous[letterId].status = status
    THEN [next |-> [k \in DOMAIN previous \ {letterId} |-> previous[k]],
          same |-> FALSE]
    ELSE [next |-> WithEntry(previous, letterId,
                     LetterStateOf(status,
                        IF letterId \in DOMAIN previous
                        THEN previous[letterId].seenAt ELSE t,
                        t)),
          same |-> FALSE]

\* mutant of updateStatusUpdater: seenAt is the time of the call and
\* updatedAt the time the letter was first seen
updateStatusUpdaterSwapsTimes(previous, letterId, status, t) ==
    IF letterId \in DOMAIN previous /\ previous[letterId].status = status
    THEN [next |-> previous, same |-> TRUE]
    ELSE [next |-> WithEntry(previous, letterId,
                     LetterStateOf(status,
                        t,
                        IF letterId \in DOMAIN previous
                        THEN previous[letterId].seenAt ELSE t)),
          same |-> FALSE]

\* the updater updateStatus passes (existing?.status === status;
\* seenAt: existing?.seenAt ?? now)
updateStatusUpdater(previous, letterId, status, t) ==
    IF letterId \in DOMAIN previous /\ previous[letterId].status = status
    THEN [next |-> previous, same |-> TRUE]
    ELSE [next |-> WithEntry(previous, letterId,
                     LetterStateOf(status,
                        IF letterId \in DOMAIN previous
                        THEN previous[letterId].seenAt ELSE t,
                        t)),
          same |-> FALSE]

\* mutant of setAndPersistActions: only a successful write updates the
\* in-memory ledger
setAndPersistActionsRollsBack(previous, stored, r, ok) ==
    IF r.same
    THEN [actions |-> previous, storage |-> stored,
          wrote |-> FALSE, stored |-> FALSE, threw |-> FALSE]
    ELSE [actions |-> IF ok THEN r.next ELSE previous,
          storage |-> IF ok THEN Stringify(r.next) ELSE stored,
          wrote |-> TRUE, stored |-> ok, threw |-> FALSE]

\* mutant of setAndPersistActions: the text written is the ledger before
\* the update
setAndPersistActionsWritesPrevious(previous, stored, r, ok) ==
    IF r.same
    THEN [actions |-> previous, storage |-> stored,
          wrote |-> FALSE, stored |-> FALSE, threw |-> FALSE]
    ELSE [actions |-> r.next,
          storage |-> IF ok THEN Stringify(previous) ELSE stored,
          wrote |-> TRUE, stored |-> ok, threw |-> FALSE]

\* mutant of setAndPersistActions: the write is not skipped when the updater
\* returned the previous ledger
setAndPersistActionsAlwaysWrites(previous, stored, r, ok) ==
    [actions |-> r.next,
     storage |-> IF ok THEN Stringify(r.next) ELSE stored,
     wrote |-> TRUE, stored |-> ok, threw |-> FALSE]

\* setAndPersistActions with updater result r: the new ledger and stored
\* text, whether setItem was called (wrote) and succeeded (stored), and
\* whether an exception escapes.  ok: localStorage.setItem does not throw
setAndPersistActions(previous, stored, r, ok) ==
    IF r.same
    THEN [actions |-> previous, storage |-> stored,
          wrote |-> FALSE, stored |-> FALSE, threw |-> FALSE]
    ELSE [actions |-> r.next,
          storage |-> IF ok THEN Stringify(r.next) ELSE stored,
          wrote |-> TRUE, stored |-> ok, threw |-> FALSE]

(***************************************************************************)
(* Derived sets (useMemo), as sequences of letters.                        *)
(***************************************************************************)
RECURSIVE Filter(_, _, _)
\* letters.filter: the letters that have (wantEntry) or lack a truthy entry
Filter(seq, ledger, wantEntry) ==
    IF seq = <<>> THEN <<>>
    ELSE LET rest == Filter(Tail(seq), ledger, wantEntry)
         IN IF HasEntry(ledger, Head(seq).id) = wantEntry
            THEN <<Head(seq)>> \o rest ELSE rest

\* actions[id]?.updatedAt ?? 0
UpdatedAtOf(ledger, id) ==
    IF id \in DOMAIN ledger /\ "updatedAt" \in DOMAIN ledger[id]
    THEN ledger[id].updatedAt ELSE 0

RECURSIVE InsertSorted(_, _, _)
\* x placed after every element that does not sort after it
\* (Array.prototype.sort is stable; the comparator is second - first)
InsertSorted(x, sorted, ledger) ==
    IF sorted = <<>> THEN <<x>>
    ELSE IF UpdatedAtOf(ledger, Head(sorted).id) >= UpdatedAtOf(ledger, x.id)
    THEN <<Head(sorted)>> \o InsertSorted(x, Tail(sorted), ledger)
    ELSE <<x>> \o sorted

RECURSIVE SortByUpdatedAtDesc(_, _)
SortByUpdatedAtDesc(seq, ledger) ==
    IF seq = <<>> THEN <<>>
    ELSE InsertSorted(seq[Len(seq)],
                      SortByUpdatedAtDesc(SubSeq(seq, 1, Len(seq) - 1), ledger),
                      ledger)

\* letters.filter((letter) => !actions[letter.id])
unseenLetters == Filter(letters, actions, FALSE)

\* mutant of archiveItems: letters whose status is still "read" are left out
archiveItemsWithoutRead ==
    SelectSeq(SortByUpdatedAtDesc(Filter(letters, actions, TRUE), actions),
              LAMBDA l : actions[l.id].status # "read")

\* letters.filter((letter) => Boolean(actions[letter.id])).sort(...)
archiveItems == SortByUpdatedAtDesc(Filter(letters, actions, TRUE), actions)

(***************************************************************************)
(* Archive view selections (search text, filter, tag).                     *)
(* The page variants that carry these selections narrow archiveItems: by a *)
(* case-insensitive substring match on the body text, by tag equality, or  *)
(* to the hearted letters ("Favorites").                                   *)
(***************************************************************************)
\* the selections offered to the archive view
ArchiveFilters == {"all", "tag", "favorites"}

Tags == {"love", "hope"}

SearchTexts == {<<>>, <<"h", "i">>, <<"Y">>, <<"z">>}

\* one character of String.prototype.toLowerCase
ToLower(c) ==
    CASE c = "H" -> "h" [] c = "I" -> "i" [] c = "Y" -> "y" [] OTHER -> c

LowerCase(s) == [i \in 1 .. Len(s) |-> ToLower(s[i])]

\* text.toLowerCase().includes(query.toLowerCase())
Includes(text, query) ==
    \E i \in 0 .. Len(text) - Len(query) :
        \A j \in 1 .. Len(query) :
            LowerCase(text)[i + j] = LowerCase(query)[j]

\* the sort directions offered to the archive view
SortDirections == {"asc", "desc"}

RECURSIVE InsertSortedAsc(_, _, _)
\* x placed after every element that does not sort after it, for the
\* comparator first - second
InsertSortedAsc(x, sorted, ledger) ==
    IF sorted = <<>> THEN <<x>>
    ELSE IF UpdatedAtOf(ledger, Head(sorted).id) <= UpdatedAtOf(ledger, x.id)
    THEN <<Head(sorted)>> \o InsertSortedAsc(x, Tail(sorted), ledger)
    ELSE <<x>> \o sorted

RECURSIVE SortByUpdatedAtAsc(_, _)
SortByUpdatedAtAsc(seq, ledger) ==
    IF seq = <<>> THEN <<>>
    ELSE InsertSortedAsc(seq[Len(seq)],
                         SortByUpdatedAtAsc(SubSeq(seq, 1, Len(seq) - 1),
                                            ledger),
                         ledger)

\* mutant of archiveSorted: the direction is not consulted
archiveSortedNewestFirst(direction) == archiveItems

\* the archive letters in the selected direction of updatedAt
archiveSorted(direction) ==
    IF direction = "asc"
    THEN SortByUpdatedAtAsc(Filter(letters, actions, TRUE), actions)
    ELSE archiveItems

\* mutant of archiveView: the search text narrows the favorites as well
archiveViewSearchNarrows(filter, tag, query) ==
    SelectSeq(archiveItems,
              LAMBDA l :
                  /\ Includes(l.text, query)
                  /\ CASE filter = "favorites" ->
                              actions[l.id].status = "hearted"
                        [] filter = "tag" -> l.tag = tag
                        [] OTHER -> TRUE)

\* the letters the archive view lists under the given selections
archiveView(filter, tag, query) ==
    SelectSeq(archiveItems,
              LAMBDA l :
                  CASE filter = "favorites" -> actions[l.id].status = "hearted"
                    [] filter = "tag" ->
                          l.tag = tag /\ Includes(l.text, query)
                    [] OTHER -> Includes(l.text, query))

(***************************************************************************)
(* Action Ledger: initial states and actions.                              *)
(***************************************************************************)
JsonText(v) == [kind |-> "json", val |-> v]

\* what localStorage can hold at startup: nothing, "", text that is not
\* JSON, JSON that is not a mapping, and ledgers an earlier session wrote
InitialStorage ==
    {[kind |-> "missing"], [kind |-> "empty"], [kind |-> "garbage"],
     JsonText([t |-> "number", n |-> 7]),
     JsonText([t |-> "string", s |-> "x"]),
     JsonText([t |-> "bool", b |-> TRUE]),
     JsonText([t |-> "null"]),
     JsonText([t |-> "array", elems |-> <<>>]),
     JsonText([t |-> "array", elems |-> <<[t |-> "number", n |-> 7]>>]),
     Stringify(EmptyLedger),
     Stringify(WithEntry(EmptyLedger, "a", LetterStateOf("hearted", 0, 0)))}

NoOp == [op |-> "none", id |-> "", status |-> "", wrote |-> FALSE,
         stored |-> FALSE, readThrew |-> FALSE]

\* the letters of the sheet: a and b have an audio clip, c has none; tag is
\* the free-text category, text the body as a sequence of characters
SheetLetters ==
    <<[id |-> "a", audio |-> TRUE, tag |-> "love", text |-> <<"H", "i">>],
      [id |-> "b", audio |-> TRUE, tag |-> "hope", text |-> <<"y", "o">>],
      [id |-> "c", audio |-> FALSE, tag |-> "love", text |-> <<"h", "I">>]>>

LedgerInit ==
    /\ letters = SheetLetters
    /\ actions = EmptyLedger
    /\ storage \in InitialStorage
    /\ ledgerLoaded = FALSE
    /\ now = 1
    /\ uncaught = FALSE
    /\ writeFailed = FALSE
    /\ lastOp = NoOp

\* the ledger of a page that is not mounted (the other specifications)
LedgerIdle ==
    /\ letters = <<>>
    /\ actions = EmptyLedger
    /\ storage = [kind |-> "missing"]
    /\ ledgerLoaded = FALSE
    /\ now = 1
    /\ uncaught = FALSE
    /\ writeFailed = FALSE
    /\ lastOp = NoOp

\* the startup effect that restores the ledger
Load ==
    /\ UNCHANGED <<cardVars, audioVars>>
    /\ NoViewCall
    /\ ~ledgerLoaded
    /\ \E readThrows \in BOOLEAN :
         LET r == LoadLedger(actions, storage, readThrows)
         IN /\ actions' = r.actions
            /\ uncaught' = (uncaught \/ r.threw)
            /\ lastOp' = [NoOp EXCEPT !.op = "load", !.readThrew = readThrows]
    /\ ledgerLoaded' = TRUE
    /\ UNCHANGED <<letters, storage, now, writeFailed>>

\* the state change of one setAndPersistActions call with updater result u
Persist(op, id, status, u) ==
    /\ IF u.same
       THEN LET r == setAndPersistActions(actions, storage, u, TRUE)
            IN /\ actions' = r.actions
               /\ storage' = r.storage
               /\ uncaught' = (uncaught \/ r.threw)
               /\ writeFailed' = (writeFailed \/ (r.wrote /\ ~r.stored))
               /\ lastOp' = [NoOp EXCEPT !.op = op, !.id = id,
                               !.status = status, !.wrote = r.wrote,
                               !.stored = r.stored]
       ELSE \E ok \in BOOLEAN :
            LET r == setAndPersistActions(actions, storage, u, ok)
            IN /\ actions' = r.actions
               /\ storage' = r.storage
               /\ uncaught' = (uncaught \/ r.threw)
               /\ writeFailed' = (writeFailed \/ (r.wrote /\ ~r.stored))
               /\ lastOp' = [NoOp EXCEPT !.op = op, !.id = id,
                               !.status = status, !.wrote = r.wrote,
                               !.stored = r.stored]

markRead(letterId) ==
    /\ UNCHANGED <<cardVars, audioVars>>
    /\ NoViewCall
    /\ ledgerLoaded
    /\ Persist("markRead", letterId, "", markReadUpdater(actions, letterId, now))
    /\ UNCHANGED <<letters, ledgerLoaded, now>>

updateStatus(letterId, status) ==
    /\ UNCHANGED <<cardVars, audioVars>>
    /\ NoViewCall
    /\ ledgerLoaded
    /\ Persist("updateStatus", letterId, status,
               updateStatusUpdater(actions, letterId, status, now))
    /\ UNCHANGED <<letters, ledgerLoaded, now>>

\* time passes
Tick ==
    /\ UNCHANGED <<cardVars, audioVars>>
    /\ NoViewCall
    /\ now < MaxTime
    /\ now' = now + 1
    /\ lastOp' = NoOp
    /\ UNCHANGED <<letters, actions, storage, ledgerLoaded, uncaught,
                   writeFailed>>

LedgerNext ==
    \/ Load
    \/ \E id \in LetterIds : markRead(id)
    \/ \E id \in LetterIds : \E status \in LetterStatus : updateStatus(id, status)
    \/ Tick


(***************************************************************************)
(* Audio Controller.                                                       *)
(* A player is an Audio element: the letter whose clip it plays, its       *)
(* playback state st ("loading" after play() until playback begins,        *)
(* "playing", "paused", "ended", "error") and the state of the promise     *)
(* play() returned.                                                        *)
(***************************************************************************)
NoPlayer == 0
NoLetter == ""

PlayerIds == 1 .. Len(players)

\* player.pause(); player.currentTime = 0
Paused(ps, i) ==
    IF ps[i].st \in {"loading", "playing"}
    THEN [ps EXCEPT ![i].st = "paused"] ELSE ps

\* setActiveAudioId: a state update of an unmounted component is dropped
SetActive(id) == IF homeMounted THEN id ELSE activeAudioId

AudioInit ==
    /\ homeMounted = TRUE
    /\ audioRef = NoPlayer
    /\ activeAudioId = NoLetter
    /\ players = <<>>
    /\ slotReleased = FALSE
    /\ lastAudio = "none"

\* the audio slot of a page that is not mounted (the other specifications)
AudioIdle ==
    /\ homeMounted = FALSE
    /\ audioRef = NoPlayer
    /\ activeAudioId = NoLetter
    /\ players = <<>>
    /\ slotReleased = FALSE
    /\ lastAudio = "none"

\* stopAudio, as the conjunct of a handler
stopAudio ==
    /\ players' = IF audioRef # NoPlayer THEN Paused(players, audioRef)
                  ELSE players
    /\ audioRef' = NoPlayer
    /\ activeAudioId' = SetActive(NoLetter)
    /\ slotReleased' = TRUE

\* a click that calls stopAudio (closing a letter, switching views)
Stop ==
    /\ UNCHANGED <<cardVars, ledgerVars>>
    /\ NoViewCall
    /\ homeMounted
    /\ stopAudio
    /\ lastAudio' = "stop"
    /\ UNCHANGED homeMounted

toggleAudio(letter) ==
    /\ UNCHANGED <<cardVars, ledgerVars>>
    /\ NoViewCall
    /\ homeMounted
    /\ IF ~letter.audio
       THEN /\ UNCHANGED <<audioRef, activeAudioId, players, slotReleased>>
            /\ lastAudio' = "toggle-none"
       ELSE IF activeAudioId = letter.id
       THEN /\ stopAudio
            /\ lastAudio' = "toggle-stop"
       ELSE /\ Len(players) < MaxPlayers
            /\ players' =
                 Append(IF audioRef # NoPlayer THEN Paused(players, audioRef)
                        ELSE players,
                        [letter |-> letter.id, st |-> "loading",
                         promise |-> "pending"])
            /\ slotReleased' = FALSE
            /\ lastAudio' = "toggle-start"
            /\ UNCHANGED <<audioRef, activeAudioId>>
    /\ UNCHANGED homeMounted

\* play() of player i fulfils: playback has begun; the then handler runs
PlayResolved(i) ==
    /\ UNCHANGED <<cardVars, ledgerVars>>
    /\ NoViewCall
    /\ players[i].promise = "pending" /\ players[i].st = "loading"
    /\ players' = [players EXCEPT ![i].st = "playing",
                                  ![i].promise = "fulfilled"]
    /\ audioRef' = i
    /\ activeAudioId' = SetActive(players[i].letter)
    /\ lastAudio' = "resolved"
    /\ UNCHANGED <<homeMounted, slotReleased>>

\* play() of player i rejects; the catch handler runs
PlayRejected(i) ==
    /\ UNCHANGED <<cardVars, ledgerVars>>
    /\ NoViewCall
    /\ players[i].promise = "pending"
    /\ players' = [players EXCEPT
                     ![i].st = IF @ = "loading" THEN "error" ELSE @,
                     ![i].promise = "rejected"]
    /\ audioRef' = IF audioRef = i THEN NoPlayer ELSE audioRef
    /\ activeAudioId' = SetActive(NoLetter)
    /\ lastAudio' = "rejected"
    /\ UNCHANGED <<homeMounted, slotReleased>>

\* the clip of player i reaches its end; onended runs
Ended(i) ==
    /\ UNCHANGED <<cardVars, ledgerVars>>
    /\ NoViewCall
    /\ players[i].st = "playing"
    /\ players' = [players EXCEPT ![i].st = "ended"]
    /\ audioRef' = IF audioRef = i THEN NoPlayer ELSE audioRef
    /\ activeAudioId' = IF audioRef = i THEN SetActive(NoLetter)
                        ELSE activeAudioId
    /\ lastAudio' = "ended"
    /\ UNCHANGED <<homeMounted, slotReleased>>

\* a media error on player i; onerror runs (a pending play() promise
\* rejects afterwards)
MediaError(i) ==
    /\ UNCHANGED <<cardVars, ledgerVars>>
    /\ NoViewCall
    /\ players[i].st \in {"loading", "playing"}
    /\ players' = [players EXCEPT ![i].st = "error"]
    /\ audioRef' = IF audioRef = i THEN NoPlayer ELSE audioRef
    /\ activeAudioId' = IF audioRef = i THEN SetActive(NoLetter)
                        ELSE activeAudioId
    /\ lastAudio' = "error"
    /\ UNCHANGED <<homeMounted, slotReleased>>

\* teardown of Home: the effect cleanups set ignore, clear the unfurl
\* timeout and call stopAudio
HomeUnmount ==
    /\ UNCHANGED <<cardVars, ledgerVars>>
    /\ homeMounted
    /\ stopAudio
    /\ lastAudio' = "unmount"
    /\ homeMounted' = FALSE
    /\ ignore' = TRUE
    /\ unfurlTimer' = IF unfurlTimer = "pending" THEN "done" ELSE unfurlTimer
    /\ timeouts' = IF unfurlTimer = "pending" THEN timeouts - 1 ELSE timeouts
    /\ lastCall' = "unmount"
    /\ UNCHANGED <<loading, error, currentId, showArchive, isUnfurling,
                   response>>

AudioNext ==
    \/ \E i \in 1 .. Len(SheetLetters) : toggleAudio(SheetLetters[i])
    \/ Stop
    \/ \E i \in PlayerIds : PlayResolved(i)
    \/ \E i \in PlayerIds : PlayRejected(i)
    \/ \E i \in PlayerIds : Ended(i)
    \/ \E i \in PlayerIds : MediaError(i)
    \/ HomeUnmount

\* the view of a page whose letters are not modelled (the other
\* specifications)
ViewIdle ==
    /\ loading = TRUE
    /\ error = ""
    /\ currentId = ""
    /\ showArchive = FALSE
    /\ isUnfurling = FALSE
    /\ unfurlTimer = "null"
    /\ timeouts = 0
    /\ response = [kind |-> "pending"]
    /\ ignore = FALSE
    /\ lastCall = "none"

InitOfAudio == AudioInit /\ CardIdle /\ LedgerIdle /\ ViewIdle

SpecAudio == InitOfAudio /\ [][AudioNext]_vars

\* the players that are audibly playing
Playing == {i \in PlayerIds : players[i].st = "playing"}

\* C2: in every reachable state at most one playback handle is audibly
\* playing.
C2_AtMostOnePlaying == Cardinality(Playing) <= 1

\* the step is a toggleAudio call that created a player
StartsClip == lastAudio' = "toggle-start" /\ Len(players') = Len(players) + 1

\* C12 as stated: a toggle(A) that starts a clip leaves no clip of another
\* letter playing; when the play() of A's clip fulfils (the page still being
\* mounted), the slot holds A's player and A's id; and a toggle(A) while A is the active slot leaves no
\* clip of A playing and the slot empty.
C12_ToggleSwitchesClip ==
    [][/\ StartsClip =>
            \A i \in PlayerIds :
               players[i].letter # players'[Len(players')].letter =>
                  players'[i].st # "playing"
       /\ (lastAudio' = "resolved" /\ homeMounted) =>
            /\ audioRef' \in Playing'
            /\ players'[audioRef'].letter = activeAudioId'
       /\ lastAudio' = "toggle-stop" =>
            /\ \A i \in PlayerIds :
                  players[i].letter = activeAudioId => players'[i].st # "playing"
            /\ audioRef' = NoPlayer
            /\ activeAudioId' = NoLetter]_vars

\* C13 as stated: after stopAudio, and until toggleAudio next starts a
\* clip, no clip is playing and the slot is empty, whatever the results of
\* the play attempts started before the stop.
C13_StoppedStaysStopped ==
    slotReleased =>
       /\ Playing = {}
       /\ audioRef = NoPlayer
       /\ activeAudioId = NoLetter

\* the player whose clip the step ends, or fails while it is playing
StoppedByItself ==
    {i \in PlayerIds :
        players[i].st = "playing" /\ players'[i].st \in {"ended", "error"}}

\* the player whose play() promise the step settles
Settled ==
    {i \in PlayerIds :
        players[i].promise = "pending" /\ players'[i].promise # "pending"}

\* C24 as stated: while the page is mounted, a play attempt that succeeds
\* makes the slot hold its letter, and a rejected attempt, the natural end of
\* a playing clip or a media error on it leaves the slot without an active
\* letter id; none of them sets the page's error.
C24_AttemptOutcomeSetsSlot ==
    [][homeMounted =>
         /\ lastAudio' = "resolved" =>
                \A i \in Settled : activeAudioId' = players[i].letter
         /\ lastAudio' = "rejected" => activeAudioId' = NoLetter
         /\ lastAudio' \in {"ended", "error"} /\ StoppedByItself # {} =>
                activeAudioId' = NoLetter
         /\ lastAudio' \in {"resolved", "rejected", "ended", "error"} =>
                error' = error]_vars

\* no play() promise is pending
NoAttemptPending == \A i \in PlayerIds : players[i].promise # "pending"

\* the rejected attempt of the step was superseded: a player created after
\* it is playing
SupersededRejection ==
    /\ lastAudio' = "rejected"
    /\ \E i \in Settled : \E j \in Playing : j > i

\* C36 as stated: whenever no play attempt is pending, the active letter id
\* is set if and only if the slot holds a player that is playing, and that
\* player plays the clip of the active letter; and the rejection of a
\* superseded play attempt leaves the active letter id as it was.
C36_SlotConsistentWhenSettled ==
    /\ [](NoAttemptPending =>
            /\ activeAudioId # NoLetter <=>
                  (audioRef # NoPlayer /\ audioRef \in Playing)
            /\ activeAudioId # NoLetter =>
                  players[audioRef].letter = activeAudioId)
    /\ [][SupersededRejection => activeAudioId' = activeAudioId]_vars

(***************************************************************************)
(* View Controller (Home): the startup fetch, the current letter, the      *)
(* archive flag and the unfurl animation.                                  *)
(* error and currentId are "" for null.  unfurlTimer is "null" while       *)
(* unfurlTimerRef.current is null, "pending" while its timeout is          *)
(* scheduled and "done" once the timeout has fired or was cleared;         *)
(* timeouts counts the timeouts of openRandomLetter the browser holds.     *)
(* response is what the endpoint answered, NoResponse while the fetch is   *)
(* pending.                                                                *)
(***************************************************************************)
NoResponse == [kind |-> "pending"]

\* the letters a successful response carries: a and b of the sheet
FetchedLetters == SubSeq(SheetLetters, 1, 2)

\* response.json(): a body that is not JSON, JSON null, or an object:
\* { error } with or without a message (letters is then not an array), or
\* { letters } with an array
Bodies ==
    {[json |-> FALSE], [json |-> TRUE, isObject |-> FALSE]} \cup
    {[json |-> TRUE, isObject |-> TRUE, error |-> e,
      letters |-> [array |-> FALSE]] : e \in {"", "Sheet is private"}} \cup
    {[json |-> TRUE, isObject |-> TRUE, error |-> "",
      letters |-> [array |-> TRUE, list |-> l]] : l \in {<<>>, FetchedLetters}}

\* how the fetch can settle: it rejects, or it resolves to a response
FetchOutcomes ==
    {[kind |-> "rejected"]} \cup
    {[kind |-> "response", ok |-> ok, body |-> b] :
        ok \in BOOLEAN, b \in Bodies}

\* the try block of loadLetters: the letters of the payload, or the message
\* of the error it throws
Payload(o) ==
    IF o.kind = "rejected"
    THEN [failed |-> TRUE, message |-> "Failed to fetch"]
    ELSE IF ~o.body.json
    THEN [failed |-> TRUE, message |-> "Unexpected token in JSON"]
    ELSE IF ~o.body.isObject
    THEN [failed |-> TRUE, message |-> "Cannot read properties of null"]
    ELSE IF ~o.ok
    THEN [failed |-> TRUE,
          message |-> IF o.body.error # "" THEN o.body.error
                      ELSE "Could not load your letters."]
    ELSE IF ~o.body.letters.array
    THEN [failed |-> TRUE, message |-> "Unexpected data from Google Sheets."]
    ELSE [failed |-> FALSE, letters |-> o.body.letters.list]

\* mutant of loadLetters: the result is applied after teardown too
loadLettersUnguarded(o, ignored, prev) ==
    LET r == Payload(o)
    IN IF r.failed
       THEN [prev EXCEPT !.error = r.message, !.loading = FALSE]
       ELSE [prev EXCEPT !.letters = r.letters, !.loading = FALSE]

\* mutant of loadLetters: a failure leaves the error unset
loadLettersLenient(o, ignored, prev) ==
    LET r == Payload(o)
    IN IF ignored THEN prev
       ELSE IF r.failed
       THEN [prev EXCEPT !.loading = FALSE]
       ELSE [prev EXCEPT !.letters = r.letters, !.loading = FALSE]

\* loadLetters once the fetch has settled with o: the letters, error and
\* loading of the page, from their values prev; ignored is the effect's
\* ignore flag
loadLetters(o, ignored, prev) ==
    LET r == Payload(o)
    IN IF ignored THEN prev
       ELSE IF r.failed
       THEN [prev EXCEPT !.error = r.message, !.loading = FALSE]
       ELSE [prev EXCEPT !.letters = r.letters, !.loading = FALSE]

\* letters.find((letter) => letter.id === currentId) ?? null, <<>> for null
currentLetter ==
    LET found == {i \in DOMAIN letters : letters[i].id = currentId}
    IN IF found = {} THEN <<>>
       ELSE <<letters[CHOOSE i \in found : \A j \in found : i <= j]>>

\* the section the render shows
Screen ==
    IF loading THEN "loading"
    ELSE IF error # "" THEN "error"
    ELSE IF Len(letters) = 0 THEN "empty"
    ELSE IF showArchive THEN "archive"
    ELSE IF currentLetter # <<>> THEN "letter"
    ELSE "desk"

\* the render conditions of the three sections shown once letters are loaded
\* mutant of LetterShown: the letter section does not look at showArchive
LetterShownOverArchive ==
    ~loading /\ error = "" /\ Len(letters) > 0 /\ currentLetter # <<>>

DeskShown ==
    ~loading /\ error = "" /\ Len(letters) > 0 /\ ~showArchive
        /\ currentLetter = <<>>

LetterShown ==
    ~loading /\ error = "" /\ Len(letters) > 0 /\ ~showArchive
        /\ currentLetter # <<>>

ArchiveShown ==
    ~loading /\ error = "" /\ Len(letters) > 0 /\ showArchive

\* the class of the page element
modeClass ==
    IF showArchive THEN "archiveMode"
    ELSE IF currentLetter # <<>> THEN "letterMode"
    ELSE "coverMode"

\* the page after mount: loadLetters has set loading and started the fetch
ViewInit ==
    /\ loading = TRUE
    /\ error = ""
    /\ currentId = ""
    /\ showArchive = FALSE
    /\ isUnfurling = FALSE
    /\ unfurlTimer = "null"
    /\ timeouts = 0
    /\ response = NoResponse
    /\ ignore = FALSE
    /\ lastCall = "none"

\* what localStorage holds when the page starts
HomeStorage ==
    {[kind |-> "missing"],
     Stringify(WithEntry(EmptyLedger, "a", LetterStateOf("hearted", 0, 0)))}

\* the ledger of the page before the fetch has answered
HomeLedgerInit ==
    /\ letters = <<>>
    /\ actions = EmptyLedger
    /\ storage \in HomeStorage
    /\ ledgerLoaded = FALSE
    /\ now = 1
    /\ uncaught = FALSE
    /\ writeFailed = FALSE
    /\ lastOp = NoOp

\* mutant of FetchSettled: a failed fetch is started again
FetchSettledRetries(o) ==
    /\ UNCHANGED <<cardVars, audioVars>>
    /\ response = NoResponse
    /\ response' = IF Payload(o).failed THEN NoResponse ELSE o
    /\ LET r == loadLetters(o, ignore,
                            [letters |-> letters, error |-> error,
                             loading |-> loading])
       IN /\ letters' = r.letters
          /\ error' = r.error
          /\ loading' = r.loading
    /\ lastCall' = "loadLetters"
    /\ UNCHANGED <<actions, storage, ledgerLoaded, now, uncaught, writeFailed,
                   lastOp>>
    /\ UNCHANGED <<currentId, showArchive, isUnfurling, unfurlTimer,
                   timeouts, ignore>>

\* the fetch settles with outcome o and loadLetters resumes
FetchSettled(o) ==
    /\ UNCHANGED <<cardVars, audioVars>>
    /\ response = NoResponse
    /\ response' = o
    /\ LET r == loadLetters(o, ignore,
                            [letters |-> letters, error |-> error,
                             loading |-> loading])
       IN /\ letters' = r.letters
          /\ error' = r.error
          /\ loading' = r.loading
    /\ lastCall' = "loadLetters"
    /\ UNCHANGED <<actions, storage, ledgerLoaded, now, uncaught, writeFailed,
                   lastOp>>
    /\ UNCHANGED <<currentId, showArchive, isUnfurling, unfurlTimer,
                   timeouts, ignore>>

\* mutant of openRandomLetter: no early return when nothing is unseen
openRandomLetterUnguarded(k) ==
    /\ UNCHANGED <<cardVars, homeMounted>>
    /\ homeMounted /\ ledgerLoaded
    /\ stopAudio
    /\ lastAudio' = "stop"
    /\ IF Len(unseenLetters) = 0
       THEN /\ k = 0
            /\ UNCHANGED <<currentId, actions, storage, uncaught, writeFailed,
                           lastOp>>
       ELSE /\ k \in DOMAIN unseenLetters
            /\ currentId' = unseenLetters[k].id
            /\ Persist("markRead", unseenLetters[k].id, "",
                       markReadUpdater(actions, unseenLetters[k].id, now))
    /\ showArchive' = FALSE
    /\ isUnfurling' = TRUE
    /\ unfurlTimer' = "pending"
    /\ timeouts' = (IF unfurlTimer = "pending" THEN timeouts - 1
                      ELSE timeouts) + 1
    /\ lastCall' = "openRandomLetter"
    /\ UNCHANGED <<letters, ledgerLoaded, now>>
    /\ UNCHANGED <<loading, error, response, ignore>>

\* mutant of openRandomLetter: the archive flag is left as it is
openRandomLetterKeepsArchive(k) ==
    /\ UNCHANGED <<cardVars, homeMounted>>
    /\ homeMounted /\ ledgerLoaded
    /\ IF Len(unseenLetters) = 0
       THEN /\ k = 0
            /\ UNCHANGED <<audioVars, ledgerVars>>
            /\ UNCHANGED <<currentId, showArchive, isUnfurling, unfurlTimer,
                           timeouts>>
       ELSE /\ k \in DOMAIN unseenLetters
            /\ stopAudio
            /\ lastAudio' = "stop"
            /\ currentId' = unseenLetters[k].id
            /\ Persist("markRead", unseenLetters[k].id, "",
                       markReadUpdater(actions, unseenLetters[k].id, now))
            /\ isUnfurling' = TRUE
            /\ unfurlTimer' = "pending"
            /\ timeouts' = (IF unfurlTimer = "pending" THEN timeouts - 1
                              ELSE timeouts) + 1
            /\ UNCHANGED <<letters, ledgerLoaded, now, showArchive>>
    /\ lastCall' = "openRandomLetter"
    /\ UNCHANGED <<loading, error, response, ignore>>

\* mutant of openRandomLetter: the pending timeout is not cleared
openRandomLetterKeepsTimer(k) ==
    /\ UNCHANGED <<cardVars, homeMounted>>
    /\ homeMounted /\ ledgerLoaded
    /\ IF Len(unseenLetters) = 0
       THEN /\ k = 0
            /\ UNCHANGED <<audioVars, ledgerVars>>
            /\ UNCHANGED <<currentId, showArchive, isUnfurling, unfurlTimer,
                           timeouts>>
       ELSE /\ k \in DOMAIN unseenLetters
            /\ stopAudio
            /\ lastAudio' = "stop"
            /\ currentId' = unseenLetters[k].id
            /\ Persist("markRead", unseenLetters[k].id, "",
                       markReadUpdater(actions, unseenLetters[k].id, now))
            /\ showArchive' = FALSE
            /\ isUnfurling' = TRUE
            /\ unfurlTimer' = "pending"
            /\ timeouts' = timeouts + 1
            /\ UNCHANGED <<letters, ledgerLoaded, now>>
    /\ lastCall' = "openRandomLetter"
    /\ UNCHANGED <<loading, error, response, ignore>>

\* mutant of openRandomLetter: the letter is picked among all letters
openRandomLetterAmongAll(k) ==
    /\ UNCHANGED <<cardVars, homeMounted>>
    /\ homeMounted /\ ledgerLoaded
    /\ IF Len(unseenLetters) = 0
       THEN /\ k = 0
            /\ UNCHANGED <<audioVars, ledgerVars>>
            /\ UNCHANGED <<currentId, showArchive, isUnfurling, unfurlTimer,
                           timeouts>>
       ELSE /\ k \in DOMAIN letters
            /\ stopAudio
            /\ lastAudio' = "stop"
            /\ currentId' = letters[k].id
            /\ Persist("markRead", letters[k].id, "",
                       markReadUpdater(actions, letters[k].id, now))
            /\ showArchive' = FALSE
            /\ isUnfurling' = TRUE
            /\ unfurlTimer' = "pending"
            /\ timeouts' = (IF unfurlTimer = "pending" THEN timeouts - 1
                              ELSE timeouts) + 1
            /\ UNCHANGED <<letters, ledgerLoaded, now>>
    /\ lastCall' = "openRandomLetter"
    /\ UNCHANGED <<loading, error, response, ignore>>

\* openRandomLetter, k being the index Math.floor(Math.random() * length)
\* picks (0 when nothing is unseen)
openRandomLetter(k) ==
    /\ UNCHANGED <<cardVars, homeMounted>>
    /\ homeMounted /\ ledgerLoaded
    /\ IF Len(unseenLetters) = 0
       THEN /\ k = 0
            /\ UNCHANGED <<audioVars, ledgerVars>>
            /\ UNCHANGED <<currentId, showArchive, isUnfurling, unfurlTimer,
                           timeouts>>
       ELSE /\ k \in DOMAIN unseenLetters
            /\ stopAudio
            /\ lastAudio' = "stop"
            /\ currentId' = unseenLetters[k].id
            /\ Persist("markRead", unseenLetters[k].id, "",
                       markReadUpdater(actions, unseenLetters[k].id, now))
            /\ showArchive' = FALSE
            /\ isUnfurling' = TRUE
            /\ unfurlTimer' = "pending"
            /\ timeouts' = (IF unfurlTimer = "pending" THEN timeouts - 1
                              ELSE timeouts) + 1
            /\ UNCHANGED <<letters, ledgerLoaded, now>>
    /\ lastCall' = "openRandomLetter"
    /\ UNCHANGED <<loading, error, response, ignore>>

\* the timeout openRandomLetter scheduled fires
UnfurlTimeout ==
    /\ UNCHANGED <<cardVars, ledgerVars, audioVars>>
    /\ timeouts > 0
    /\ timeouts' = timeouts - 1
    /\ unfurlTimer' = IF timeouts = 1 THEN "done" ELSE unfurlTimer
    /\ isUnfurling' = FALSE
    /\ lastCall' = "unfurlTimeout"
    /\ UNCHANGED <<loading, error, currentId, showArchive, response, ignore>>

\* mutant of onStatusClick: the letter stays open after the status is set
onStatusClickKeepsLetter(status) ==
    /\ UNCHANGED <<cardVars, homeMounted>>
    /\ homeMounted /\ ledgerLoaded
    /\ Screen = "letter"
    /\ Persist("updateStatus", currentLetter[1].id, status,
               updateStatusUpdater(actions, currentLetter[1].id, status, now))
    /\ stopAudio
    /\ lastAudio' = "stop"
    /\ UNCHANGED currentId
    /\ lastCall' = "closeLetter"
    /\ UNCHANGED <<letters, ledgerLoaded, now>>
    /\ UNCHANGED <<loading, error, showArchive, isUnfurling, unfurlTimer, timeouts,
                   response, ignore>>

\* the heart and envelope buttons of the letter view:
\* updateStatus(currentLetter.id, status); closeLetter()
onStatusClick(status) ==
    /\ UNCHANGED <<cardVars, homeMounted>>
    /\ homeMounted /\ ledgerLoaded
    /\ Screen = "letter"
    /\ Persist("updateStatus", currentLetter[1].id, status,
               updateStatusUpdater(actions, currentLetter[1].id, status, now))
    /\ stopAudio
    /\ lastAudio' = "stop"
    /\ currentId' = ""
    /\ lastCall' = "closeLetter"
    /\ UNCHANGED <<letters, ledgerLoaded, now>>
    /\ UNCHANGED <<loading, error, showArchive, isUnfurling, unfurlTimer, timeouts,
                   response, ignore>>

\* the header button (shown once letters are loaded)
onTopAction ==
    /\ UNCHANGED <<cardVars, ledgerVars, homeMounted>>
    /\ homeMounted /\ ledgerLoaded
    /\ Screen \in {"desk", "letter", "archive"}
    /\ stopAudio
    /\ lastAudio' = "stop"
    /\ IF showArchive
       THEN /\ showArchive' = FALSE
            /\ UNCHANGED currentId
       ELSE /\ currentId' = ""
            /\ showArchive' = TRUE
    /\ lastCall' = "onTopAction"
    /\ UNCHANGED <<loading, error, isUnfurling, unfurlTimer, timeouts, response, ignore>>

\* the header button of page.tsx (shown once letters are loaded):
\* setShowArchive((previous) => !previous); stopAudio()
onArchiveToggle ==
    /\ UNCHANGED <<cardVars, ledgerVars, homeMounted>>
    /\ homeMounted /\ ledgerLoaded
    /\ Screen \in {"desk", "letter", "archive"}
    /\ showArchive' = ~showArchive
    /\ stopAudio
    /\ lastAudio' = "stop"
    /\ lastCall' = "onArchiveToggle"
    /\ UNCHANGED <<loading, error, currentId, isUnfurling, unfurlTimer, timeouts,
                   response, ignore>>

\* the cassette button of the letter view or of an archive card (disabled
\* for a letter without audio)
onCassetteClick(letter) ==
    /\ ledgerLoaded
    /\ letter.audio
    /\ \/ Screen = "letter" /\ currentLetter = <<letter>>
       \/ Screen = "archive" /\ HasEntry(actions, letter.id)
    /\ Len(players) < MaxHomePlayers \/ activeAudioId = letter.id
    /\ toggleAudio(letter)

HomeNext ==
    \/ Load
    \/ \E o \in FetchOutcomes : FetchSettled(o)
    \/ \E k \in 0 .. Len(FetchedLetters) : openRandomLetter(k)
    \/ UnfurlTimeout
    \/ \E status \in {"hearted", "archived"} : onStatusClick(status)
    \/ onTopAction
    \/ \E i \in DOMAIN letters : onCassetteClick(letters[i])
    \/ \E i \in PlayerIds : PlayResolved(i)
    \/ \E i \in PlayerIds : PlayRejected(i)
    \/ \E i \in PlayerIds : Ended(i)
    \/ \E i \in PlayerIds : MediaError(i)
    \/ HomeUnmount

\* the page of page.tsx: onArchiveToggle in the place of onTopAction
PageNext ==
    \/ Load
    \/ \E o \in FetchOutcomes : FetchSettled(o)
    \/ \E k \in 0 .. Len(FetchedLetters) : openRandomLetter(k)
    \/ UnfurlTimeout
    \/ \E status \in {"hearted", "archived"} : onStatusClick(status)
    \/ onArchiveToggle
    \/ \E i \in DOMAIN letters : onCassetteClick(letters[i])
    \/ \E i \in PlayerIds : PlayResolved(i)
    \/ \E i \in PlayerIds : PlayRejected(i)
    \/ \E i \in PlayerIds : Ended(i)
    \/ \E i \in PlayerIds : MediaError(i)
    \/ HomeUnmount

(***************************************************************************)
(* The specifications.                                                     *)
(***************************************************************************)
InitOfLedger == LedgerInit /\ CardIdle /\ AudioIdle /\ ViewIdle

SpecLedger == InitOfLedger /\ [][LedgerNext]_vars

InitOfCard == CardInit /\ LedgerIdle /\ AudioIdle /\ ViewIdle

SpecCard == InitOfCard /\ [][CardNext]_vars

InitOfHome == HomeLedgerInit /\ AudioInit /\ ViewInit /\ CardIdle

SpecHome == InitOfHome /\ [][HomeNext]_vars

InitOfPage == HomeLedgerInit /\ AudioInit /\ ViewInit /\ CardIdle

SpecPage == InitOfPage /\ [][PageNext]_vars

\* the page with the browser's guarantee that a scheduled timeout that is
\* not cleared fires
FairSpecHome == SpecHome /\ WF_vars(UnfurlTimeout)

(***************************************************************************)
(* Claims about the ScratchCard.                                           *)
(***************************************************************************)
\* the erased ratio of the surface is at or above the threshold
AtThreshold(cv) ==
    Cardinality(cv.cleared) * ThresholdDen
        >= ThresholdNum * (cv.width * cv.height)

\* C1 as stated: over the whole life of one instance (pointer events,
\* resizes and reset signals included) the reveal callback is invoked at
\* most once.
C1_AtMostOncePerLifetime == revealCalls <= 1

\* C1 amended: between two consecutive runs of initializeCanvas (and before
\* the first one) the reveal callback is invoked at most once; every
\* initialization clears the latch.
C1_AtMostOncePerInitialization == callsSinceInit <= 1

\* C1 witness: the callback has fired, the latch is set, and a later erase
\* left the surface above the threshold without a second invocation.
C1_Witness ==
    /\ scratchMode = "scratch"
    /\ isInitialized
    /\ revealTriggered /\ callsSinceInit = 1
    /\ lastErase = "segment" /\ ~checkRan
    /\ IsMaskStep(scratchCount)
    /\ AtThreshold(canvas)

\* C10: in scratch mode a step invokes the reveal callback only if it ran
\* the reveal-ratio check and the number of pixels with alpha 0 at that
\* check is at least revealThreshold x width x height; and a check that runs
\* with the count at or above that bound (the bound itself included) does
\* invoke it.
C10_FiresExactlyAtThreshold ==
    [][scratchMode = "scratch" =>
         /\ revealCalls' # revealCalls =>
               /\ checkRan'
               /\ revealCalls' = revealCalls + 1
               /\ AtThreshold(canvas')
         /\ (checkRan' /\ AtThreshold(canvas')) =>
               revealCalls' = revealCalls + 1]_vars

\* C10 witness: the callback fired at a check where the erased count was
\* exactly the bound (2 of 5 pixels), after an initialization.
C10_Witness ==
    /\ scratchMode = "scratch"
    /\ isInitialized /\ scratchCount > 0
    /\ checkRan /\ revealTriggered /\ callsSinceInit = 1
    /\ canvas.width * canvas.height = 5
    /\ Cardinality(canvas.cleared) = 2

\* C11: in scratch mode every pointer-up or pointer-cancel runs the
\* reveal-ratio check unless the latch is already set, whatever the erase
\* counter is; when the erased ratio is at or above the threshold at that
\* moment and the latch is not set, the callback is invoked during the
\* event and the latch is set.
C11_PointerEndAlwaysChecks ==
    [][(scratchMode = "scratch" /\ lastEvent' = "pointerend") =>
         /\ checkRan' = ~revealTriggered
         /\ (AtThreshold(canvas) /\ ~revealTriggered) =>
               /\ revealCalls' = revealCalls + 1
               /\ revealTriggered']_vars

\* C11 witness: after an initialization, a stroke of fewer than seven
\* erasures crossed the threshold and the pointer-up invoked the callback.
C11_Witness ==
    /\ scratchMode = "scratch" /\ lastEvent = "pointerend"
    /\ isInitialized
    /\ scratchCount > 0 /\ ~IsMaskStep(scratchCount)
    /\ checkRan /\ revealTriggered /\ callsSinceInit = 1
    /\ AtThreshold(canvas)

\* C19 as stated: in hover mode a pointer-enter sets the hover flag, and the
\* first one after an initialization invokes the reveal callback.
C19_FirstEnterFires ==
    [][(scratchMode = "hover" /\ lastEvent' = "mouseenter") =>
         /\ isHovering'
         /\ callsSinceInit = 0 => revealCalls' = revealCalls + 1]_vars

\* C20 as stated: in click mode every pointer-down flips the revealed flag,
\* and the callback is invoked exactly on the first flip to revealed of the
\* instance.
C20_FiresOnFirstFlipOnly ==
    [][(scratchMode = "click" /\ lastEvent' = "pointerdown") =>
         /\ isRevealed' = ~isRevealed
         /\ revealCalls' # revealCalls <=> (isRevealed' /\ revealCalls = 0)]_vars

\* C20 amended: in click mode every pointer-down flips the revealed flag,
\* and the callback is invoked, once, exactly on the first flip to revealed
\* since the last initializeCanvas (or since mount).
C20_FiresOnFirstFlipPerInitialization ==
    [][(scratchMode = "click" /\ lastEvent' = "pointerdown") =>
         /\ isRevealed' = ~isRevealed
         /\ revealCalls' # revealCalls <=> (isRevealed' /\ callsSinceInit = 0)
         /\ revealCalls' \in {revealCalls, revealCalls + 1}]_vars

\* C20 witness: after an initialization a click revealed the content and
\* invoked the callback, and a second click has hidden it again.
C20_Witness ==
    /\ scratchMode = "click" /\ lastEvent = "pointerdown"
    /\ isInitialized
    /\ ~isRevealed /\ revealTriggered /\ callsSinceInit = 1

\* the state initializeCanvas leaves: counter 0, latch clear, no last point,
\* no active stroke, revealed and hover flags false, surface fully opaque
FreshlyInitialized ==
    /\ scratchCount = 0
    /\ ~revealTriggered
    /\ lastPosition = NoPoint
    /\ ~isScratching
    /\ ~isRevealed
    /\ ~isHovering
    /\ canvas.cleared = {}

\* C23: a change of the reset token schedules an initialization that only
\* unmounting cancels, and when it has been processed the engine is in its
\* freshly initialized state: erase counter 0, latch clear, no last point,
\* no active stroke, revealed and hover flags false, surface fully opaque.
C23_ResetReinitializes ==
    [][/\ lastEvent' = "resetSignal" => frame' # <<>>
       /\ frame # <<>> /\ lastEvent' \notin {"initializeCanvas", "unmount"}
              => frame' # <<>>
       /\ lastEvent' = "initializeCanvas" => FreshlyInitialized']_vars

\* an engine that had fired the callback is fresh again after a processed
\* initialization
C23_Witness ==
    /\ lastEvent = "initializeCanvas"
    /\ scratchMode = "scratch"
    /\ revealCalls >= 1
    /\ FreshlyInitialized

\* the step is an erase operation (a call of scratch)
IsErase == lastErase' # "none"

\* what a step does to the erase counter and the sampled recompute steps
EraseCounterStep ==
    /\ IsErase =>
          /\ scratchCount' = scratchCount + 1
          /\ IF IsMaskStep(scratchCount')
             THEN /\ maskImageUrl' \in {DataURL(canvas'), <<>>}
                  /\ checkRan' = ~revealTriggered
             ELSE /\ ~checkRan'
                  /\ UNCHANGED <<maskImageUrl, revealTriggered, revealCalls>>
    /\ scratchCount' # scratchCount =>
          \/ IsErase
          \/ lastEvent' = "initializeCanvas" /\ scratchCount' = 0
    /\ lastEvent' = "pointerend" => UNCHANGED scratchCount

\* C28: in scratch mode every erase operation increases the erase counter
\* by one; only initialization resets it (the end of a stroke does not); an
\* erase operation recaptures the snapshot and runs the reveal-ratio check
\* (unless the latch is set) exactly when the counter after incrementing is a
\* multiple of 7, and no other erase operation does either.
C28_EveryMaskEveryErase == [][EraseCounterStep]_vars

\* the seventh erase operation since the initialization opened a new stroke
\* (the counter went on across the end of a stroke) and ran both steps
C28_Witness ==
    /\ scratchMode = "scratch" /\ isInitialized
    /\ lastEvent = "pointerdown" /\ lastErase = "disc"
    /\ scratchCount = MaskEvery
    /\ checkRan
    /\ maskImageUrl = DataURL(canvas)

\* what a step does to the last point and what an erase operation erases
StrokeStep ==
    /\ IsErase =>
          /\ lastPosition' # NoPoint
          /\ IF lastPosition = NoPoint
             THEN /\ lastErase' = "disc"
                  /\ canvas'.cleared = canvas.cleared \cup
                        Disc(lastPosition', canvas.width, canvas.height)
             ELSE /\ lastErase' = "segment"
                  /\ canvas'.cleared = canvas.cleared \cup
                        Segment(lastPosition, lastPosition', canvas.width,
                                canvas.height)
    /\ lastPosition' # lastPosition => IsErase \/ lastPosition' = NoPoint
    /\ (lastEvent' = "pointerend" /\ scratchMode = "scratch") =>
          lastPosition' = NoPoint /\ ~isScratching'
    /\ (lastEvent' = "pointerdown" /\ scratchMode = "scratch"
          /\ ~isScratching) => lastErase' = "disc"

\* C29: the first erase operation of a stroke erases a disc at the
\* pointer-down point and every later one a segment from the point of the
\* erase operation before it to the current point; pointer-up and
\* pointer-cancel empty the last point, and it stays empty while no stroke is
\* active, so the next pointer-down erases a disc and never a segment from a
\* point of an earlier stroke.
C29_DiscThenSegments ==
    /\ [][StrokeStep]_vars
    /\ [](~isScratching => lastPosition = NoPoint)

\* the pointer-down of a later stroke erased a disc although an earlier
\* stroke had left erasures since the initialization
C29_Witness ==
    /\ scratchMode = "scratch" /\ isInitialized
    /\ lastEvent = "pointerdown" /\ lastErase = "disc"
    /\ scratchCount = 3
    /\ canvas.width * canvas.height = 5
    /\ Cardinality(canvas.cleared) = 3

\* the step is one of the pointer events of the canvas
IsPointerEvent == lastEvent' \in {"pointerdown", "pointermove", "pointerend"}

\* C30: the surface and the erase counter change only by an initialization
\* or, in scratch mode, by a pointer-down or by a pointer-move during an
\* active stroke: a pointer-move with no active stroke, and every pointer
\* event in hover and click mode, leave both unchanged.
C30_ErasedOnlyByStrokes ==
    [][/\ (canvas' # canvas \/ scratchCount' # scratchCount) =>
            \/ lastEvent' = "initializeCanvas"
            \/ scratchMode = "scratch" /\ lastEvent' = "pointerdown"
            \/ scratchMode = "scratch" /\ lastEvent' = "pointermove"
                  /\ isScratching
       /\ (IsPointerEvent /\ scratchMode # "scratch") =>
            UNCHANGED <<canvas, scratchCount>>
       /\ (lastEvent' = "pointermove" /\ ~isScratching) =>
            UNCHANGED <<canvas, scratchCount>>]_vars

\* a pointer-move after the end of a stroke found a partly erased surface
\* and no active stroke
C30_Witness ==
    /\ scratchMode = "scratch" /\ isInitialized
    /\ lastEvent = "pointermove" /\ lastErase = "none"
    /\ ~isScratching
    /\ scratchCount = 2 /\ Cardinality(canvas.cleared) = 2

\* the step recaptured the snapshot and toDataURL threw: the mask is empty
SnapshotFailed ==
    /\ scratchMode = "scratch"
    /\ \/ IsErase /\ IsMaskStep(scratchCount')
       \/ lastEvent' = "pointerend"
    /\ maskImageUrl' = <<>>

\* C31: when the snapshot of the surface cannot be produced the mask becomes
\* empty and the handler goes on: the erasure of the step is kept, the
\* reveal-ratio check that follows still runs (unless the latch is set) and
\* invokes the callback when the erased ratio is at or above the threshold.
C31_FailedSnapshotKeepsChecking ==
    [][SnapshotFailed =>
         /\ canvas.cleared \subseteq canvas'.cleared
         /\ checkRan' = ~revealTriggered
         /\ (AtThreshold(canvas') /\ ~revealTriggered) =>
               /\ revealCalls' = revealCalls + 1
               /\ revealTriggered']_vars

\* after an earlier snapshot had succeeded, the snapshot of a pointer-up
\* failed and the check behind it invoked the callback
C31_Witness ==
    /\ scratchMode = "scratch" /\ lastEvent = "pointerend"
    /\ isInitialized /\ maskImageUrl = <<>>
    /\ checkRan /\ revealTriggered /\ callsSinceInit = 1
    /\ scratchCount > 0
    /\ AtThreshold(canvas)

\* C37 as stated: the reveal callback fires only while the card is
\* initialized; no pointer event that arrives between mount and the first
\* deferred initialization invokes it.
C37_NoCallbackBeforeInitialization ==
    [][revealCalls' # revealCalls => isInitialized]_vars

(***************************************************************************)
(* Claims about the Action Ledger.                                         *)
(***************************************************************************)
LoadedIds == {letters[i].id : i \in DOMAIN letters}

\* the step is a markRead or updateStatus call (lastOp' describes it)
IsLedgerCall == lastOp'.op \in {"markRead", "updateStatus"}

\* the state is the one a markRead or updateStatus call left
IsLedgerOp == lastOp.op \in {"markRead", "updateStatus"}

InSeq(seq, id) == \E j \in DOMAIN seq : seq[j].id = id

\* C3: once a ledger entry exists for a letter id, every later step (any
\* markRead or updateStatus on any id) keeps the entry and its seenAt.
C3_SeenAtNeverChanges ==
    [][\A id \in LoadedIds :
         id \in DOMAIN actions =>
            /\ id \in DOMAIN actions'
            /\ actions'[id].seenAt = actions[id].seenAt]_vars

\* C3 witness: an entry created in this session whose status was changed
\* at a later time, seenAt still the time of creation.
C3_Witness ==
    /\ lastOp.op = "updateStatus" /\ lastOp.wrote
    /\ lastOp.id \in DOMAIN actions
    /\ actions[lastOp.id].seenAt = 1
    /\ actions[lastOp.id].updatedAt = 2
    /\ actions[lastOp.id].status = "archived"

\* C4: markRead(id) on an id without an entry inserts
\* {status: read, seenAt: now, updatedAt: now}, leaves the other entries
\* alone and writes storage once; markRead(id) on an id with an entry
\* changes neither the ledger nor the storage and writes nothing.
C4_MarkReadInsertsOnce ==
    [][lastOp'.op = "markRead" =>
         LET id == lastOp'.id
         IN IF id \in DOMAIN actions
            THEN /\ actions' = actions
                 /\ storage' = storage
                 /\ ~lastOp'.wrote
            ELSE /\ DOMAIN actions' = DOMAIN actions \cup {id}
                 /\ actions'[id] =
                      [status |-> "read", seenAt |-> now, updatedAt |-> now]
                 /\ \A k \in DOMAIN actions : actions'[k] = actions[k]
                 /\ lastOp'.wrote]_vars

\* C4 witness: a markRead call that found the entry created at this very
\* time by an earlier call, and wrote nothing.
C4_Witness ==
    /\ lastOp.op = "markRead" /\ ~lastOp.wrote
    /\ lastOp.id \in DOMAIN actions
    /\ actions[lastOp.id] =
         [status |-> "read", seenAt |-> now, updatedAt |-> now]
    /\ storage = Stringify(actions)

\* C5: updateStatus(id, s) when the entry of id already has status s leaves
\* the ledger (status, seenAt, updatedAt) and the storage unchanged and
\* does not call setItem.
C5_SameStatusIsNoOp ==
    [][(/\ lastOp'.op = "updateStatus"
        /\ lastOp'.id \in DOMAIN actions
        /\ actions[lastOp'.id].status = lastOp'.status) =>
         /\ actions' = actions
         /\ storage' = storage
         /\ ~lastOp'.wrote]_vars

\* C5 witness: updateStatus with the current status, called after the
\* clock moved on: updatedAt is still the earlier time.
C5_Witness ==
    /\ lastOp.op = "updateStatus" /\ ~lastOp.wrote
    /\ lastOp.id \in DOMAIN actions
    /\ actions[lastOp.id].status = lastOp.status
    /\ actions[lastOp.id].status = "hearted"
    /\ actions[lastOp.id].updatedAt = 1 /\ now = 2

\* C6: unseen and archive partition the loaded letters: a letter is in
\* unseen exactly when the ledger has no entry for its id, in archive
\* exactly when it has one, and never in both or in neither.
C6_UnseenArchivePartition ==
    /\ \A i \in DOMAIN letters :
         LET id == letters[i].id
         IN /\ InSeq(unseenLetters, id) <=> id \notin DOMAIN actions
            /\ InSeq(archiveItems, id) <=> id \in DOMAIN actions
            /\ InSeq(unseenLetters, id) # InSeq(archiveItems, id)
    /\ Len(unseenLetters) + Len(archiveItems) = Len(letters)

\* C6 witness: one letter unseen, one read and one hearted in the archive.
C6_Witness ==
    /\ Len(unseenLetters) = 1
    /\ Len(archiveItems) = 2
    /\ actions[archiveItems[1].id].status = "read"
    /\ actions[archiveItems[2].id].status = "hearted"

\* C7: after the startup load, when the storage entry is missing, is not
\* JSON, or could not be read, the ledger is empty and no exception has
\* escaped.
C7_LoadFallsBackToEmpty ==
    (/\ lastOp.op = "load"
     /\ \/ storage.kind \in {"missing", "garbage"}
        \/ lastOp.readThrew) =>
        /\ actions = EmptyLedger
        /\ ~uncaught

\* C7 witness: the load ran on stored text that is not JSON.
C7_Witness ==
    /\ lastOp.op = "load" /\ ~lastOp.readThrew
    /\ ledgerLoaded
    /\ storage.kind = "garbage"

\* C8: after a markRead or updateStatus call that changed the ledger and
\* whose setItem succeeded, the stored text parses back to the whole
\* in-memory ledger; a call that leaves the ledger unchanged writes
\* nothing, and a call that changes it does call setItem.
C8_StoredTextIsWholeLedger ==
    [][IsLedgerCall =>
         /\ (lastOp'.wrote /\ lastOp'.stored) =>
               /\ storage'.kind = "json"
               /\ storage'.val.t = "object"
               /\ AsRecord(storage'.val) = actions'
         /\ actions' = actions => (~lastOp'.wrote /\ storage' = storage)
         /\ actions' # actions => lastOp'.wrote]_vars

\* C8 witness: a write succeeded after an earlier write of the session had
\* failed, and the ledger holds two entries.
C8_Witness ==
    /\ lastOp.wrote /\ lastOp.stored
    /\ writeFailed
    /\ Cardinality(DOMAIN actions) = 2
    /\ storage = Stringify(actions)

\* C9: when the setItem of a ledger call throws, the in-memory ledger takes
\* the new value (the entry of id with the call's status and updatedAt =
\* now), no exception escapes, the stored text keeps its previous content,
\* and the archive set computed from the in-memory ledger holds the letter.
C9_WriteFailureKeepsMemory ==
    /\ [][(IsLedgerCall /\ lastOp'.wrote /\ ~lastOp'.stored) =>
         LET id == lastOp'.id
         IN /\ storage' = storage
            /\ ~uncaught'
            /\ id \in DOMAIN actions'
            /\ actions'[id].updatedAt = now
            /\ actions'[id].status =
                 (IF lastOp'.op = "markRead" THEN "read" ELSE lastOp'.status)
            /\ \A k \in DOMAIN actions \ {id} :
                 k \in DOMAIN actions' /\ actions'[k] = actions[k]]_vars
    /\ []((IsLedgerOp /\ lastOp.wrote /\ ~lastOp.stored) =>
            /\ InSeq(archiveItems, lastOp.id)
            /\ ~InSeq(unseenLetters, lastOp.id))

\* C9 witness: two mutations of the session are in memory while the
\* storage entry is still missing, the last write having failed.
C9_Witness ==
    /\ lastOp.op = "updateStatus" /\ lastOp.wrote /\ ~lastOp.stored
    /\ storage.kind = "missing"
    /\ Cardinality(DOMAIN actions) = 2
    /\ Len(archiveItems) = 2

\* C16: every updateStatus(id, s) call takes effect when it is made, on the
\* ledger the previous call left: after it the status of id is s; updatedAt
\* is the time of this call if it changed the status and is otherwise the
\* value the last changing call wrote; seenAt is the value the entry was
\* created with (the time of this call if it creates the entry).
C16_StatusCallsApplyInOrder ==
    [][lastOp'.op = "updateStatus" =>
         LET id == lastOp'.id
             had == id \in DOMAIN actions
             changed == ~had \/ actions[id].status # lastOp'.status
         IN /\ id \in DOMAIN actions'
            /\ actions'[id].status = lastOp'.status
            /\ actions'[id].updatedAt =
                 (IF changed THEN now ELSE actions[id].updatedAt)
            /\ actions'[id].seenAt =
                 (IF had THEN actions[id].seenAt ELSE now)
            /\ lastOp'.wrote = changed]_vars

\* C16 witness: the entry was created by an earlier call at time 1 and the
\* last call, at time 2, overrode its status with hearted.
C16_Witness ==
    /\ lastOp.op = "updateStatus" /\ lastOp.wrote
    /\ lastOp.status = "hearted"
    /\ lastOp.id \in DOMAIN actions
    /\ actions[lastOp.id] = LetterStateOf("hearted", 1, 2)

\* the elements of a sequence
Range(seq) == {seq[i] : i \in 1 .. Len(seq)}

\* the loaded letters whose ledger status is "hearted"
HeartedLetters ==
    {l \in Range(letters) :
        HasEntry(actions, l.id) /\ actions[l.id].status = "hearted"}

\* C21: with the archive filter set to Favorites the archive view lists
\* exactly the loaded letters whose ledger status is hearted, each once,
\* whatever the tag selection and the search text are.
C21_FavoritesAreTheHearted ==
    \A tag \in Tags : \A query \in SearchTexts :
        LET view == archiveView("favorites", tag, query)
        IN /\ Range(view) = HeartedLetters
           /\ Len(view) = Cardinality(HeartedLetters)

\* a hearted letter that neither the tag nor the search text selects is
\* listed under Favorites, next to a seen letter that is not hearted
C21_Witness ==
    \E tag \in Tags : \E query \in SearchTexts :
        \E l \in HeartedLetters :
            /\ l.tag # tag
            /\ ~Includes(l.text, query)
            /\ l \in Range(archiveView("favorites", tag, query))
            /\ l \notin Range(archiveView("tag", tag, query))
            /\ Range(archiveItems) # HeartedLetters

\* the letter ids that have a (truthy) ledger entry
SeenIds == {id \in DOMAIN actions : Truthy(actions[id])}

\* C25: after the startup load no step removes a ledger entry, and no
\* letter that has left the unseen set returns to it.
C25_EntriesNeverRemoved ==
    [][ledgerLoaded =>
         /\ SeenIds \subseteq SeenIds'
         /\ Range(unseenLetters') \subseteq Range(unseenLetters)]_vars

\* a letter that was opened earlier has been promoted to archived, next to
\* another seen letter and one that is still unseen
C25_Witness ==
    /\ lastOp.op = "updateStatus" /\ lastOp.status = "archived"
    /\ actions[lastOp.id].status = "archived"
    /\ actions[lastOp.id].seenAt < actions[lastOp.id].updatedAt
    /\ Cardinality(SeenIds) = 2
    /\ Len(unseenLetters) = 1

\* the updatedAt values of adjacent letters of seq respect the direction
RespectsDirection(seq, direction) ==
    \A i \in 1 .. Len(seq) - 1 :
        IF direction = "asc"
        THEN UpdatedAtOf(actions, seq[i].id) <= UpdatedAtOf(actions, seq[i + 1].id)
        ELSE UpdatedAtOf(actions, seq[i].id) >= UpdatedAtOf(actions, seq[i + 1].id)

\* C32: in either selected direction the archive list holds the letters
\* that have a ledger entry, each once, and the updatedAt values of every
\* pair of adjacent letters respect the direction.
C32_SortedInSelectedDirection ==
    \A direction \in SortDirections :
        LET list == archiveSorted(direction)
        IN /\ Range(list) = Range(archiveItems)
           /\ Len(list) = Len(archiveItems)
           /\ RespectsDirection(list, direction)

\* two seen letters with different updatedAt values, next to an unseen one:
\* the two directions list them in opposite orders
C32_Witness ==
    /\ Len(archiveItems) = 2 /\ Len(unseenLetters) = 1
    /\ UpdatedAtOf(actions, archiveItems[1].id)
          > UpdatedAtOf(actions, archiveItems[2].id)
    /\ archiveSorted("asc")[1] = archiveSorted("desc")[2]
    /\ archiveSorted("asc")[2] = archiveSorted("desc")[1]

\* the ledger entries that are letter states
LetterStateIds == {id \in DOMAIN actions : "seenAt" \in DOMAIN actions[id]}

\* C35: with a clock that never goes backwards, every letter state of the
\* ledger has seenAt <= updatedAt, and neither time is later than the
\* clock.
C35_SeenAtNotAfterUpdatedAt ==
    \A id \in LetterStateIds :
        /\ actions[id].seenAt <= actions[id].updatedAt
        /\ actions[id].updatedAt <= now

\* a letter was marked read and its status was set at a later time
C35_Witness ==
    /\ lastOp.op = "updateStatus" /\ lastOp.wrote
    /\ lastOp.id \in LetterStateIds
    /\ 0 < actions[lastOp.id].seenAt
    /\ actions[lastOp.id].seenAt < actions[lastOp.id].updatedAt
    /\ actions[lastOp.id].updatedAt = now

\* the step of a markRead or updateStatus call for letter lastOp'.id
LedgerCallFrame ==
    LET id == lastOp'.id
    IN /\ DOMAIN actions' \subseteq DOMAIN actions \cup {id}
       /\ \A k \in DOMAIN actions \ {id} :
             k \in DOMAIN actions' /\ actions'[k] = actions[k]
       /\ UNCHANGED <<letters, currentId, showArchive>>

\* C39: a markRead or updateStatus call for a letter changes at most the
\* ledger entry of that letter: the entries of all other keys, the letter
\* list, the current letter and the archive flag are as before the call.
C39_CallChangesOnlyItsEntry == [][IsLedgerCall => LedgerCallFrame]_vars

\* the status of one letter was set while another letter has an entry, and
\* the call changed the ledger
C39_Witness ==
    /\ lastOp.op = "updateStatus" /\ lastOp.wrote
    /\ \E k \in DOMAIN actions : k # lastOp.id
    /\ Len(archiveItems) = 2

\* the ledger a load at the next startup takes from the stored text
Reloaded(stored) == LoadLedger(EmptyLedger, stored, FALSE).actions

\* a reload gives the in-memory ledger, and with it the same unseen and
\* archive lists
InSync ==
    LET reloaded == Reloaded(storage)
    IN /\ reloaded = actions
       /\ Filter(letters, reloaded, FALSE) = unseenLetters
       /\ SortByUpdatedAtDesc(Filter(letters, reloaded, TRUE), reloaded)
             = archiveItems

\* the last operation read or wrote the stored text without an exception
ReadOrStored ==
    \/ lastOp.stored
    \/ lastOp.op = "load" /\ ~lastOp.readThrew

\* a step of a loaded page that writes nothing leaves the ledger, the
\* stored text and the letters as they are
QuietStep ==
    (ledgerLoaded /\ ~lastOp'.wrote) => UNCHANGED <<letters, actions, storage>>

\* C40: persisting and reloading is a round trip: after a markRead or
\* updateStatus call whose write succeeded, a load at the next startup
\* gives a ledger equal to the in-memory ledger, hence the same unseen and
\* archive lists, and the calls and steps that follow without writing
\* change neither the ledger nor the stored text; the same holds after the
\* load at startup.
C40_PersistReloadRoundTrip ==
    /\ [](ReadOrStored => InSync)
    /\ [][QuietStep]_vars

\* a write failed earlier in the session, a later write succeeded, both
\* letters have an entry, and a call that changed nothing followed
C40_Witness ==
    /\ writeFailed /\ InSync
    /\ IsLedgerOp /\ ~lastOp.wrote
    /\ Len(archiveItems) = 2
    /\ \E id \in LetterStateIds : actions[id].status = "archived"

\* the stored text parsed as JSON that is not a mapping from letter id to
\* state: a number, a string, a boolean, null or an array
NonMappingStored ==
    /\ storage.kind = "json"
    /\ storage.val.t \in {"number", "string", "bool", "null", "array"}

\* the load just ran on such a text
LoadedNonMapping ==
    /\ lastOp.op = "load" /\ ~lastOp.readThrew
    /\ NonMappingStored

\* the call that follows such a load leaves the ledger the same call leaves
\* on an empty ledger
AsOnEmptyLedger ==
    LET id == lastOp'.id
    IN /\ lastOp'.op = "markRead" =>
             actions' = markReadUpdater(EmptyLedger, id, now).next
       /\ lastOp'.op = "updateStatus" =>
             actions' = updateStatusUpdater(EmptyLedger, id,
                                            lastOp'.status, now).next
       /\ lastOp'.stored => storage' = Stringify(actions')

\* C33: when the stored text parses as valid JSON that is not a mapping
\* from letter id to state (a number, a string, a boolean, null or an
\* array), the load leaves an empty ledger, every letter is unseen, and the
\* markRead or updateStatus call that follows gives the ledger and the
\* stored text it gives on an empty ledger.
C33_NonMappingJsonLoadsEmpty ==
    /\ [](LoadedNonMapping =>
            /\ actions = EmptyLedger
            /\ unseenLetters = letters)
    /\ [][LoadedNonMapping => AsOnEmptyLedger]_vars

(***************************************************************************)
(* Claims about the View Controller.                                       *)
(***************************************************************************)
\* the step is a call of openRandomLetter
IsOpenRandomCall == lastCall' = "openRandomLetter"

\* the step is the startup fetch settling
IsFetchSettling == lastCall' = "loadLetters"

\* the response is not a success response with a readable body whose
\* letters member is an array
IsLoadFailure(o) ==
    \/ o.kind = "rejected"
    \/ ~o.ok
    \/ ~o.body.json
    \/ ~o.body.isObject
    \/ ~o.body.letters.array

\* C14: openRandomLetter called while no letter is unseen changes nothing:
\* the ledger, the stored text, the current letter, the archive flag, the
\* animation flag and its timer, and the audio slot and players stay as they
\* are, and no exception escapes.
C14_OpenWithNothingUnseenIsNoOp ==
    [][(IsOpenRandomCall /\ Len(unseenLetters) = 0) =>
         /\ UNCHANGED <<letters, actions, storage, currentId, showArchive,
                        isUnfurling, unfurlTimer, timeouts, audioRef,
                        activeAudioId, players, loading, error>>
         /\ ~uncaught']_vars

\* C14 witness: every letter has been opened, the clip of the current
\* letter is playing, and the call left it playing.
C14_Witness ==
    /\ lastCall = "openRandomLetter"
    /\ Len(letters) > 0 /\ Len(unseenLetters) = 0
    /\ Screen = "letter"
    /\ activeAudioId = currentId /\ Playing # {}

\* C15: openRandomLetter called while some letter is unseen picks one of
\* the letters unseen at the call: after it that letter has a ledger entry
\* with status read, is the current letter, the archive flag is false and
\* the section shown is the single-letter view of that letter.
C15_OpensAnUnseenLetter ==
    [][(IsOpenRandomCall /\ Len(unseenLetters) > 0) =>
         \E k \in DOMAIN unseenLetters :
            LET id == unseenLetters[k].id
            IN /\ currentId' = id
               /\ id \in DOMAIN actions'
               /\ actions'[id].status = "read"
               /\ ~showArchive'
               /\ Screen' = "letter"
               /\ currentLetter' = <<unseenLetters[k]>>]_vars

\* C15 witness: the call was made with two letters unseen and opened the
\* second one, whose write to storage failed.
C15_Witness ==
    /\ lastCall = "openRandomLetter"
    /\ Screen = "letter" /\ currentId = "b"
    /\ lastOp.op = "markRead" /\ lastOp.id = "b" /\ ~lastOp.stored
    /\ actions["b"].status = "read"
    /\ InSeq(unseenLetters, "a")

\* C17: when the startup fetch settles on a mounted page the loading flag is
\* cleared and exactly one of three outcomes follows: a rejected fetch, a
\* non-success response, an unreadable body or a non-array letters member
\* gives the error section with a non-empty message and no letters; a
\* success response with an empty array gives the no-entries section with
\* no error; a success response with a non-empty array gives the loaded
\* page (the desk) with no error and those letters.
C17_FetchOutcomes ==
    [][(IsFetchSettling /\ homeMounted) =>
         /\ ~loading'
         /\ IF IsLoadFailure(response')
            THEN /\ error' # "" /\ Screen' = "error"
                 /\ letters' = <<>>
            ELSE IF response'.body.letters.list = <<>>
            THEN /\ error' = "" /\ Screen' = "empty"
                 /\ letters' = <<>>
            ELSE /\ error' = "" /\ Screen' = "desk"
                 /\ letters' = response'.body.letters.list]_vars

\* C17 witness: a success response whose letters member is not an array
\* ended in the error section.
C17_Witness ==
    /\ lastCall = "loadLetters"
    /\ response.kind = "response" /\ response.ok
    /\ response.body.json /\ response.body.isObject
    /\ ~response.body.letters.array
    /\ Screen = "error"
    /\ error = "Unexpected data from Google Sheets."

\* C18: when the page was torn down before the startup fetch settled, the
\* fetch settling writes nothing: the letters, the error and the loading
\* flag keep the values they had at teardown.
C18_LateResultIsDiscarded ==
    [][(IsFetchSettling /\ ~homeMounted) =>
         UNCHANGED <<letters, error, loading>>]_vars

\* C18 witness: the fetch answered with letters after the teardown and the
\* page still has none and is still loading.
C18_Witness ==
    /\ lastCall = "loadLetters"
    /\ ~homeMounted /\ ignore
    /\ response.kind = "response" /\ ~IsLoadFailure(response)
    /\ response.body.letters.list # <<>>
    /\ letters = <<>> /\ loading

\* letters are loaded without error and the list is not empty
LettersLoaded == ~loading /\ error = "" /\ Len(letters) > 0

\* the sections among archive, letter and desk that the render shows
ShownScreens ==
    {s \in {"archive", "letter", "desk"} :
        \/ s = "archive" /\ ArchiveShown
        \/ s = "letter" /\ LetterShown
        \/ s = "desk" /\ DeskShown}

\* C22: once letters are loaded without error and the list is not empty,
\* exactly one of the archive gallery, the letter view and the cover/desk
\* view is shown: the archive if the archive flag is set (even when a
\* current letter is set), otherwise the letter view if a current letter is
\* set, otherwise the cover/desk view; the class of the page follows the
\* same switch.
C22_ExactlyOneScreenByPriority ==
    LettersLoaded =>
        /\ Cardinality(ShownScreens) = 1
        /\ showArchive => ShownScreens = {"archive"}
        /\ ~showArchive /\ currentId # "" => ShownScreens = {"letter"}
        /\ ~showArchive /\ currentId = "" => ShownScreens = {"desk"}
        /\ modeClass = "archiveMode" <=> ArchiveShown
        /\ modeClass = "letterMode" <=> LetterShown
        /\ modeClass = "coverMode" <=> DeskShown

\* the archive gallery is shown while a letter is still the current one
C22_Witness ==
    /\ homeMounted /\ LettersLoaded
    /\ showArchive /\ currentId # "" /\ currentLetter # <<>>
    /\ ShownScreens = {"archive"}
    /\ lastCall = "onArchiveToggle"

\* C26: once the startup fetch has failed the error state is permanent: no
\* later step changes the error message, starts another fetch, sets the
\* loading flag, loads letters or shows another section than the error
\* message.
C26_ErrorIsPermanent ==
    [][error # "" =>
         /\ error' = error
         /\ response' = response
         /\ ~loading'
         /\ letters' = <<>>
         /\ Screen' = "error"]_vars

\* a call made after the failure has left the error section in place
C26_Witness ==
    /\ homeMounted /\ ledgerLoaded
    /\ response # NoResponse /\ IsLoadFailure(response)
    /\ error # "" /\ Screen = "error"
    /\ lastCall = "openRandomLetter"

\* what a step does to the timeouts of openRandomLetter
UnfurlTimerStep ==
    /\ lastCall' = "unfurlTimeout" =>
           /\ ~isUnfurling'
           /\ timeouts' = timeouts - 1
           /\ UNCHANGED <<cardVars, ledgerVars, audioVars, loading, error,
                          currentId, showArchive, response, ignore>>
    /\ (IsOpenRandomCall /\ Len(unseenLetters) > 0) =>
           isUnfurling' /\ timeouts' = 1
    /\ lastCall' = "unmount" => timeouts' = 0

\* C27: a timeout of openRandomLetter that fires clears the animation flag
\* and changes nothing else; a call of openRandomLetter that opens a letter
\* leaves exactly its own timeout scheduled (an earlier one is cancelled) and
\* teardown leaves none, so at most one is scheduled at any time and none
\* fires after teardown; and while the page stays mounted a set animation
\* flag is eventually cleared.
C27_UnfurlTimer ==
    /\ [][UnfurlTimerStep]_vars
    /\ [](timeouts <= 1 /\ (~homeMounted => timeouts = 0))
    /\ (isUnfurling ~> (~isUnfurling \/ ~homeMounted))

\* the timeout of the last letter opened has fired on a mounted page, after
\* both letters were opened
C27_Witness ==
    /\ homeMounted
    /\ lastCall = "unfurlTimeout"
    /\ ~isUnfurling /\ unfurlTimer = "done" /\ timeouts = 0
    /\ currentId # "" /\ Len(unseenLetters) = 0
    /\ storage.kind = "json" /\ Cardinality(SeenIds) = 2

\* the status of a letter: unseen without a ledger entry
StatusOf(ledger, id) ==
    IF HasEntry(ledger, id) THEN ledger[id].status ELSE "unseen"

\* the steps of the path unseen -> read -> (hearted or archived)
StatusPath ==
    {<<"unseen", "read">>, <<"read", "hearted">>, <<"read", "archived">>}

\* the step is a click on the heart or the envelope button
IsStatusClick == lastCall' = "closeLetter"

\* (the load at startup installs the statuses of earlier sessions)
StatusStep ==
    /\ ledgerLoaded =>
          \A id \in LoadedIds \cup DOMAIN actions \cup DOMAIN actions' :
             \/ StatusOf(actions', id) = StatusOf(actions, id)
             \/ <<StatusOf(actions, id), StatusOf(actions', id)>>
                    \in StatusPath
    /\ IsStatusClick =>
          /\ lastOp'.op = "updateStatus"
          /\ lastOp'.id = currentId
          /\ StatusOf(actions, currentId) = "read"
          /\ StatusOf(actions', currentId) = lastOp'.status
    /\ actions' # actions => IsStatusClick \/ IsOpenRandomCall \/ ~ledgerLoaded

\* C34: through the actions a user can reach, the status of a letter
\* follows only the path unseen -> read -> (hearted or archived): the
\* status buttons act on the current letter while its status is read, the
\* ledger changes only by opening a letter, by a status button or by the
\* load at startup, and a hearted or archived entry never changes again.
C34_StatusFollowsPath == [][StatusStep]_vars

\* one letter was hearted in an earlier session, the other was opened and
\* archived in this one, and nothing is left to open
C34_Witness ==
    /\ lastCall = "closeLetter" /\ lastOp.op = "updateStatus"
    /\ lastOp.status = "archived"
    /\ StatusOf(actions, "a") = "hearted"
    /\ StatusOf(actions, lastOp.id) = "archived"
    /\ currentId = ""

\* the step of an openRandomLetter call
OpenRandomStep ==
    IF Len(unseenLetters) > 0
    THEN /\ Len(unseenLetters') = Len(unseenLetters) - 1
         /\ Len(archiveItems') = Len(archiveItems) + 1
         /\ InSeq(unseenLetters, currentId')
         /\ ~InSeq(archiveItems, currentId')
         /\ InSeq(archiveItems', currentId')
         /\ SeenIds' = SeenIds \cup {currentId'}
    ELSE UNCHANGED <<actions, storage, currentId>>

\* C38: an openRandomLetter call made with some letter unseen takes exactly
\* one letter out of the unseen set and puts it into the archive set, and
\* the letter it opens was unseen, so no letter is opened twice; the unseen
\* and archive sets partition the letters, so after as many calls as there
\* were unseen letters none is left; and a call with no letter unseen
\* changes nothing.
C38_EachOpenTakesOneUnseen ==
    /\ [][IsOpenRandomCall => OpenRandomStep]_vars
    /\ [](Len(unseenLetters) + Len(archiveItems) = Len(letters))

\* both letters were opened in this session and nothing is left to open
C38_Witness ==
    /\ lastCall = "openRandomLetter" /\ lastOp.op = "markRead"
    /\ Len(letters) = 2 /\ Len(unseenLetters) = 0 /\ Len(archiveItems) = 2
    /\ \A id \in LoadedIds : StatusOf(actions, id) = "read"
    /\ currentId = lastOp.id
====
